---- MODULE Spec2Model ----
(***************************************************************************)
(* Rop: an expression engine with operator overloading.  The module models *)
(* the overload registry and binding table of an engine (src/src/Rop.ts),  *)
(* the evaluator's dispatch (Evaluater.ts), the process-wide default       *)
(* engine, and the precedence-climbing parser (AstParser.ts).              *)
(***************************************************************************)
EXTENDS Integers, Sequences, FiniteSets, TLC

VARIABLES
    engines,        \* ids of the Rop objects constructed so far
    overloadings,   \* engine id -> Map(prototype -> Map(symbol -> function))
    bindings,       \* engine id -> Map(identifier name -> value)
    instance,       \* Rop.instance (static): an engine id or Undefined
    declared,       \* own symbol-keyed properties of the class prototypes
    last,           \* the most recent call and what it returned or threw
    tokens,         \* AstParser.tokens
    parsed,         \* what AstParser.parse() returned or threw for tokens
    source          \* the string or the template literal given to Tokenizer.tokenize

vars == <<engines, overloadings, bindings, instance, declared, last, tokens, parsed, source>>

(***************************************************************************)
(* Bounds of the model.                                                    *)
(***************************************************************************)
MaxOverloads == 2   \* entries one behaviour puts into the overload tables and prototypes
MaxOperands == 3    \* operands of an operator chain given to the parser
MaxUnary == 2       \* prefix operators in an operator chain given to the parser
MaxPairs == 2       \* entries of the object or Map given to one bind call
MaxKeys == 2        \* names given to one unbind call
MaxEngines == 3     \* Rop objects constructed in one behaviour of the singleton
MaxSubscript == 6   \* tokens between the brackets of a subscript given to the parser
MaxTokens == 5      \* tokens of an arbitrary token list given to the parser
MaxLength == 3      \* elements of the array that is sliced
MaxIndex == 5       \* largest magnitude of a slice's start, end and step
MaxArgs == 3        \* operands of an invocation or a subtraction chain that is evaluated
MaxChars == 4       \* characters of a string given to the tokenizer
MaxValues == 2      \* embedded values of a template literal given to the tokenizer

(***************************************************************************)
(* Host values.  Every value is a record with a field k.                   *)
(***************************************************************************)
Undefined == [k |-> "undefined"]
Null == [k |-> "null"]
Instance(c) == [k |-> "object", cls |-> c]        \* new c()
Primitive(c) == [k |-> "primitive", cls |-> c]    \* a string, number ... boxed by class c
Prototype(c) == [k |-> "prototype", cls |-> c]    \* c.prototype
NotCallable == [k |-> "object", cls |-> "Object"] \* some value that is no function

\* class Base {}; class Derived extends Base {}; String boxes the string primitives.
Classes == {"Base", "Derived", "String"}
ParentOf(c) == IF c = "Derived" THEN "Base" ELSE "Object"

MapHas(m, key) == key \in DOMAIN m
MapGet(m, key) == IF key \in DOMAIN m THEN m[key] ELSE Undefined
MapSet(m, key, value) == [x \in (DOMAIN m) \cup {key} |-> IF x = key THEN value ELSE m[x]]
MapDelete(m, key) == [x \in (DOMAIN m) \ {key} |-> m[x]]
EmptyMap == [x \in {} |-> Undefined]
\* no text has been given to the tokenizer
NoSource == [form |-> "none"]

(***************************************************************************)
(* Operations: the operation registry.                                     *)
(***************************************************************************)
Str(s) == [k |-> "string", s |-> s]
\* Symbol(name), made once per operation when the registry is built
Sym(name) == [k |-> "symbol", description |-> name, of |-> "registry"]
\* a symbol made by anybody else
ForeignSym(name) == [k |-> "symbol", description |-> name, of |-> "user"]

UNARY_OPERATOR_NAMES == <<"!", "~", "-x", "+x">>
BINARY_OPERATOR_NAMES ==
    <<"+", "-", "*", "/", "%", "**", "&", "|", "^", "<<", ">>", ">>>", "&&", "||",
      "==", "===", "!=", "!==", "<", ">", "<=", ">=">>
OPERATOR_NAMES == <<"[i]", "[:]">> \o UNARY_OPERATOR_NAMES \o BINARY_OPERATOR_NAMES

Range(seq) == {seq[i] : i \in DOMAIN seq}

OperationType(name) ==
    IF name \in Range(UNARY_OPERATOR_NAMES) THEN "unary"
    ELSE IF name \in Range(BINARY_OPERATOR_NAMES) THEN "binary"
    ELSE "other"

OperationLiteral(name) ==
    CASE name = "-x" -> "-"
      [] name = "+x" -> "+"
      [] OTHER -> name

OperationPrecedence(name) ==
    CASE name \in {"!", "~", "-x", "+x"} -> 10
      [] name = "||" -> 1
      [] name = "&&" -> 2
      [] name = "|" -> 3
      [] name = "^" -> 4
      [] name = "&" -> 5
      [] name \in {"==", "===", "!=", "!=="} -> 6
      [] name \in {"<", ">", "<=", ">="} -> 7
      [] name \in {"<<", ">>", ">>>"} -> 8
      [] name \in {"+", "-"} -> 9
      [] name \in {"*", "/", "%"} -> 10
      [] name = "**" -> 11

\* OPERATION_REGISTRY[name]
OperationMeta(name) ==
    IF OperationType(name) = "other"
    THEN [name |-> name, symbol |-> Sym(name), type |-> "other"]
    ELSE [name |-> name, symbol |-> Sym(name), type |-> OperationType(name),
          literal |-> OperationLiteral(name), precedence |-> OperationPrecedence(name)]

\* the own keys of OPERATION_REGISTRY: every name and every name's symbol
RegistryHas(op) ==
    \/ op.k = "string" /\ op.s \in Range(OPERATOR_NAMES)
    \/ op.k = "symbol" /\ op.of = "registry" /\ op.description \in Range(OPERATOR_NAMES)

\* Operations.meta(op): OPERATION_REGISTRY[op] ?? null
Operations_meta(op) ==
    IF RegistryHas(op)
    THEN OperationMeta(IF op.k = "string" THEN op.s ELSE op.description)
    ELSE Null

\* Operations.symbol(op): OPERATION_REGISTRY[op]?.symbol ?? null
Operations_symbol(op) ==
    IF RegistryHas(op) THEN Operations_meta(op).symbol ELSE Null

\* meta.native of a unary or binary operation
Native(name) == [k |-> "function", name |-> name, shape |-> "native"]

(***************************************************************************)
(* Functions given as operation implementations.  shape is what the        *)
(* function's source text looks like:                                      *)
(*   "function"   function (other) {...}    has an own prototype property  *)
(*   "method"     name(other) {...}                                        *)
(*   "arrow"      (self, other) => ...      the text starts with "("       *)
(*   "bare"       self => ...               the text starts with the name  *)
(*                of the parameter, which the pattern of                   *)
(*                detectFunctionType, [^(),.=>{}[] then one or more ],     *)
(*                does not match                                           *)
(***************************************************************************)
Fn(name, shape) == [k |-> "function", name |-> name, shape |-> shape]

\* function (this, ...args) { return operationFn(this, ...args) }
Wrapper(operationFn) ==
    [k |-> "function", name |-> operationFn.name, shape |-> "wrapper", inner |-> operationFn]

\* the method a class declares under [Rop.op(name)]
DeclaredMethod(c, symbol) ==
    [k |-> "function", name |-> symbol.description, shape |-> "method", declaredBy |-> c]

IsFunction(v) == v.k = "function"

\* utils.detectFunctionType; "throw" stands for the TypeError of
\* Function.prototype.toString.call(fn) on a value that is no function
detectFunctionType(fn) ==
    IF ~IsFunction(fn) THEN "throw"
    ELSE IF fn.shape = "function" THEN "normal"
    ELSE IF fn.shape = "arrow" THEN "arrow"
    ELSE "method"

(***************************************************************************)
(* Prototype chains of the host.                                           *)
(***************************************************************************)
\* the class c itself (a constructor function): its prototype property is c.prototype
Clazz(c) == [k |-> "function", name |-> c, shape |-> "class"]
\* clazz.prototype: an arrow function has none
PrototypeProperty(clazz) ==
    IF IsFunction(clazz) /\ clazz.shape \in {"class", "function"}
    THEN Prototype(clazz.name)
    ELSE Undefined

\* Object.getPrototypeOf(p): a TypeError for null and undefined
CanGetPrototypeOf(p) == p.k \notin {"null", "undefined"}
GetPrototypeOf(p) ==
    CASE p.k \in {"object", "primitive"} -> Prototype(p.cls)
      [] p.k \in {"result", "host"} -> Prototype("Object")
      [] p.k = "function" -> Prototype("Function")
      [] p.k = "prototype" ->
            IF p.cls = "Object" THEN Null ELSE Prototype(ParentOf(p.cls))

\* typeof p === 'object', for p other than null
TypeofObject(p) == p.k \in {"object", "prototype"}

\* the own symbol-keyed properties of p: the model's objects have them on
\* class prototypes only
OwnProperties(p) ==
    IF p.k = "prototype" /\ p.cls \in DOMAIN declared THEN declared[p.cls] ELSE EmptyMap

\* symbol in p: an own or an inherited property
RECURSIVE HasProperty(_, _)
HasProperty(p, symbol) ==
    IF p.k = "null" THEN FALSE
    ELSE IF MapHas(OwnProperties(p), symbol) THEN TRUE
    ELSE HasProperty(GetPrototypeOf(p), symbol)

\* p[symbol]: the nearest property on the prototype chain
RECURSIVE GetProperty(_, _)
GetProperty(p, symbol) ==
    IF p.k = "null" THEN Undefined
    ELSE IF MapHas(OwnProperties(p), symbol) THEN OwnProperties(p)[symbol]
    ELSE GetProperty(GetPrototypeOf(p), symbol)

(***************************************************************************)
(* Rop: the overload table of an engine.                                   *)
(***************************************************************************)
Thrown(error) == [k |-> "throw", error |-> error]
IsThrown(v) == v.k = "throw"

\* mutant: one overload table shared by all engines
classOverloadsOf_Shared(e, p) ==
    IF \E other \in engines : MapHas(overloadings[other], p)
    THEN overloadings[CHOOSE other \in engines : MapHas(overloadings[other], p)][p]
    ELSE EmptyMap

\* this.overloadings.get(p) of engine e; no Map reads as a Map without entries
classOverloadsOf(e, p) ==
    IF MapHas(overloadings[e], p) THEN overloadings[e][p] ELSE EmptyMap

\* Rop.getOverloadFromPrototypeChain: the function, Null, or the TypeError
\* Object.getPrototypeOf raises
RECURSIVE getOverloadFromPrototypeChain(_, _, _)
getOverloadFromPrototypeChain(e, prototype, symbol) ==
    LET p == prototype
        classOverloads == classOverloadsOf(e, p)
    IN  IF p = Null THEN Null
        ELSE IF MapHas(classOverloads, symbol)
             THEN classOverloads[symbol]
        ELSE IF TypeofObject(p) /\ HasProperty(p, symbol) /\ IsFunction(GetProperty(p, symbol))
             THEN GetProperty(p, symbol)
        ELSE IF ~CanGetPrototypeOf(p) THEN Thrown("TypeError")
        ELSE getOverloadFromPrototypeChain(e, GetPrototypeOf(p), symbol)

\* Rop.getOverloadOnClass
getOverloadOnClass(e, clazz, symbol) ==
    getOverloadFromPrototypeChain(e, PrototypeProperty(clazz), symbol)

\* Rop.getOverloadOnInstance
getOverloadOnInstance(e, inst, symbol) ==
    getOverloadFromPrototypeChain(e, inst, symbol)

\* Rop.setOverload on the table of one engine: the table it leaves and
\* whether detectFunctionType threw
setOverload(table, prototype, symbol, operationFn) ==
    LET t1 == IF ~MapHas(table, prototype) THEN MapSet(table, prototype, EmptyMap) ELSE table
        classOverloads == t1[prototype]
        type == detectFunctionType(operationFn)
    IN  CASE type \in {"normal", "method"} ->
               [table |-> MapSet(t1, prototype, MapSet(classOverloads, symbol, operationFn)),
                threw |-> FALSE]
          [] type = "arrow" ->
               [table |-> MapSet(t1, prototype, MapSet(classOverloads, symbol, Wrapper(operationFn))),
                threw |-> FALSE]
          [] OTHER -> [table |-> t1, threw |-> TRUE]

\* the body of Rop.overload: the table it leaves and whether it threw
overloadOn(table, clazz, op, operationFn) ==
    IF PrototypeProperty(clazz) = Undefined THEN [table |-> table, threw |-> TRUE]
    ELSE IF Operations_symbol(op) = Null THEN [table |-> table, threw |-> TRUE]
    ELSE setOverload(table, PrototypeProperty(clazz), Operations_symbol(op), operationFn)

\* the loop of Rop.overloads over Reflect.ownKeys(def), from key i on
RECURSIVE overloadsLoop(_, _, _, _)
overloadsLoop(table, prototype, def, i) ==
    IF i > Len(def) THEN [table |-> table, threw |-> FALSE]
    ELSE LET symbol == Operations_symbol(def[i].key)
             operationFn == def[i].value
         IN  IF symbol = Null THEN overloadsLoop(table, prototype, def, i + 1)
             ELSE IF ~IsFunction(operationFn) THEN [table |-> table, threw |-> TRUE]
             ELSE LET r == setOverload(table, prototype, symbol, operationFn)
                  IN  IF r.threw THEN r ELSE overloadsLoop(r.table, prototype, def, i + 1)

\* the body of Rop.overloads
overloadsOn(table, clazz, def) ==
    IF PrototypeProperty(clazz) = Undefined THEN [table |-> table, threw |-> TRUE]
    ELSE overloadsLoop(table, PrototypeProperty(clazz), def, 1)

RopRef(e) == [k |-> "rop", id |-> e]

(***************************************************************************)
(* Tokens and expression nodes (TokenFactory, AstFactory).                 *)
(***************************************************************************)
EmbeddedToken(value) == [type |-> "Embedded", literal |-> "${}", value |-> value]
ConstantToken(literal) == [type |-> "Constant", literal |-> literal, value |-> Primitive("Number")]
IdentifierToken(name) == [type |-> "Identifier", literal |-> name]
OperatorToken(literal) == [type |-> "Operator", literal |-> literal]
PunctuationToken(literal) == [type |-> "Punctuation", literal |-> literal]
WhitespaceToken == [type |-> "Whitespace", literal |-> " "]

ValueNode(token) == [type |-> "Value", token |-> token]
IdentifierNode(name) == [type |-> "Identifier", name |-> name]
UnaryNode(operation, operand) == [type |-> "Unary", operation |-> operation, operand |-> operand]
BinaryNode(left, operation, right) ==
    [type |-> "Binary", left |-> left, operation |-> operation, right |-> right]

(***************************************************************************)
(* Evaluater.  An evaluation returns a value or throws; calls lists, in    *)
(* order, the implementations it invoked: the function, its receiver and   *)
(* its arguments.                                                          *)
(***************************************************************************)
Return(value, calls) == [status |-> "return", value |-> value, error |-> "", calls |-> calls]
Raise(error, calls) == [status |-> "throw", value |-> Undefined, error |-> error, calls |-> calls]
CallOf(fn, this, args) == [fn |-> fn, this |-> this, args |-> args]

\* what fn.call(this, ...args) returns: the functions are opaque, so the value
\* names the user's function and what it received; a registered arrow function
\* is reached through its wrapper, which passes the receiver as first argument
ResultOf(fn, this, args) ==
    IF fn.shape = "wrapper"
    THEN [k |-> "result", fn |-> fn.inner, this |-> Undefined, args |-> <<this>> \o args]
    ELSE [k |-> "result", fn |-> fn, this |-> this, args |-> args]

(***************************************************************************)
(* Numbers, arrays and the functions the evaluater calls.                  *)
(***************************************************************************)
NumberValue(n) == [k |-> "primitive", cls |-> "Number", n |-> n]
ArrayValue(items) == [k |-> "object", cls |-> "Array", items |-> items]
IsNumber(v) == v.k = "primitive" /\ v.cls = "Number" /\ "n" \in DOMAIN v
IsArray(v) == v.k = "object" /\ v.cls = "Array" /\ "items" \in DOMAIN v
\* a function of the host that returns the given value whatever it receives
Thunk(name, value) == [k |-> "function", name |-> name, shape |-> "arrow", returns |-> value]

\* this[i] of an array: undefined outside 0 .. length - 1
ArrayElement(items, i) == IF i \in 0..(Len(items) - 1) THEN items[i + 1] ELSE Undefined

\* target[key]: a TypeError on null and undefined; the elements and the length
\* of an array; any other property is a value of the host named by its owner
\* and key
GetMember(target, key) ==
    IF target.k \in {"undefined", "null"} THEN Raise("TypeError", <<>>)
    ELSE IF IsArray(target) /\ IsNumber(key) THEN Return(ArrayElement(target.items, key.n), <<>>)
    ELSE IF IsArray(target) /\ key = Str("length") THEN Return(NumberValue(Len(target.items)), <<>>)
    ELSE IF IsArray(target) /\ key = Undefined THEN Return(Undefined, <<>>)
    ELSE Return([k |-> "host", of |-> target, name |-> key], <<>>)

\* mutant: a negative index is left as it is
normalizeIndex_Unwrapped(index, length) == index
\* normalizeIndex
normalizeIndex(index, length) == IF index < 0 THEN index + length ELSE index

\* for (let i = start; i < end; i += step) result.push(this[i])
RECURSIVE sliceForward(_, _, _, _)
sliceForward(items, i, end, step) ==
    IF i < end THEN <<ArrayElement(items, i)>> \o sliceForward(items, i + step, end, step)
    ELSE <<>>
\* for (let i = start; i > end; i += step) result.push(this[i])
RECURSIVE sliceBackward(_, _, _, _)
sliceBackward(items, i, end, step) ==
    IF i > end THEN <<ArrayElement(items, i)>> \o sliceBackward(items, i + step, end, step)
    ELSE <<>>

\* the '[:]' function overloadDefaults gives Array, for slices whose start,
\* end and step are numbers or undefined
ArraySlice(this, slices) ==
    LET slice == slices[1]
        length == Len(this.items)
        step == IF slice.step = Undefined THEN 1 ELSE slice.step.n
        startForward == IF slice.start = Undefined THEN 0 ELSE normalizeIndex(slice.start.n, length)
        endForward == IF slice.end = Undefined THEN length ELSE normalizeIndex(slice.end.n, length)
        startBackward ==
            IF slice.start = Undefined THEN length - 1 ELSE normalizeIndex(slice.start.n, length)
        endBackward == IF slice.end = Undefined THEN -1 ELSE normalizeIndex(slice.end.n, length)
    IN  IF Len(slices) # 1 THEN Raise("Multi slice is not supported", <<>>)
        ELSE IF slice.step = NumberValue(0) THEN Raise("Slice step cannot be zero", <<>>)
        ELSE IF step > 0
             THEN Return(ArrayValue(sliceForward(this.items, startForward, endForward, step)), <<>>)
        ELSE Return(ArrayValue(sliceBackward(this.items, startBackward, endBackward, step)), <<>>)

\* the '[i]' function overloadDefaults gives Array
ArrayIndex(this, index) ==
    IF ~IsNumber(index) THEN Raise("Index of Array must be a number", <<>>)
    ELSE Return(ArrayElement(this.items, normalizeIndex(index.n, Len(this.items))), <<>>)

\* fn.call(this, ...args): the two array functions of overloadDefaults and the
\* thunks are computed, any other function is opaque
CallFunction(fn, this, args) ==
    CASE fn = Fn("Array [:]", "method") /\ IsArray(this) -> ArraySlice(this, args[1])
      [] fn = Fn("Array [i]", "method") /\ IsArray(this) -> ArrayIndex(this, args[1])
      [] "returns" \in DOMAIN fn -> Return(fn.returns, <<>>)
      [] OTHER -> Return(ResultOf(fn, this, args), <<>>)

\* the values JavaScript takes for false in a condition, among those of the model
Truthy(v) == ~(v.k \in {"undefined", "null"} \/ v = NumberValue(0))
\* meta.native(self, other): self || other and self && other are computed, the
\* other operations are opaque
NativeResult(name, args) ==
    CASE name = "||" -> IF Truthy(args[1]) THEN args[1] ELSE args[2]
      [] name = "&&" -> IF Truthy(args[1]) THEN args[2] ELSE args[1]
      [] OTHER -> ResultOf(Native(name), Undefined, args)

\* Evaluater.evaluateValueNode
evaluateValueNode(node) ==
    IF node.token.type \in {"Embedded", "Constant"}
    THEN Return(node.token.value, <<>>)
    ELSE Raise("Unknown value token type", <<>>)

\* mutant: an identifier bound to undefined is taken for an unbound one
evaluateIdentifierNode_GetUndefined(e, node) ==
    IF MapGet(bindings[e], node.name) = Undefined
    THEN Raise("Unknown identifier", <<>>)
    ELSE Return(bindings[e][node.name], <<>>)

\* mutant: an identifier can be read only before the first run of the pipeline
evaluateIdentifierNode_Once(e, node) ==
    IF last.op = "o" \/ ~MapHas(bindings[e], node.name)
    THEN Raise("Unknown identifier", <<>>)
    ELSE Return(bindings[e][node.name], <<>>)

\* Evaluater.evaluateIdentifierNode
evaluateIdentifierNode(e, node) ==
    IF ~MapHas(bindings[e], node.name)
    THEN Raise("Unknown identifier", <<>>)
    ELSE Return(bindings[e][node.name], <<>>)

RECURSIVE evaluateNode(_, _)

\* Evaluater.evaluateUnaryNode
evaluateUnaryNode(e, node) ==
    LET operand == evaluateNode(e, node.operand)
        operandValue == operand.value
        meta == Operations_meta(Str(node.operation))
        overload == getOverloadOnInstance(e, operandValue, meta.symbol)
    IN  IF operand.status = "throw" THEN operand
        ELSE IF meta.type # "unary" THEN Raise("Invalid node", operand.calls)
        ELSE IF IsThrown(overload) THEN Raise(overload.error, operand.calls)
        ELSE IF IsFunction(overload)
             THEN Return(ResultOf(overload, operandValue, <<>>),
                         Append(operand.calls, CallOf(overload, operandValue, <<>>)))
        ELSE Return(ResultOf(Native(node.operation), Undefined, <<operandValue, Undefined>>),
                    Append(operand.calls,
                           CallOf(Native(node.operation), Undefined, <<operandValue, Undefined>>)))

\* mutant: the right operand is evaluated before the left one
evaluateBinaryNode_RightFirst(e, node) ==
    LET left == evaluateNode(e, node.left)
        right == evaluateNode(e, node.right)
        calls == right.calls \o left.calls
        native == Native(node.operation)
    IN  IF right.status = "throw" THEN right
        ELSE IF left.status = "throw" THEN Raise(left.error, calls)
        ELSE Return(ResultOf(native, Undefined, <<left.value, right.value>>),
                    Append(calls, CallOf(native, Undefined, <<left.value, right.value>>)))

\* Evaluater.evaluateBinaryNode
evaluateBinaryNode(e, node) ==
    LET left == evaluateNode(e, node.left)
        right == evaluateNode(e, node.right)
        leftValue == left.value
        rightValue == right.value
        calls == left.calls \o right.calls
        meta == Operations_meta(Str(node.operation))
        leftOverload == getOverloadOnInstance(e, leftValue, meta.symbol)
        rightOverload == getOverloadOnInstance(e, rightValue, meta.symbol)
    IN  IF left.status = "throw" THEN left
        ELSE IF right.status = "throw" THEN Raise(right.error, calls)
        ELSE IF meta.type # "binary" THEN Raise("Invalid node", calls)
        ELSE IF IsThrown(leftOverload) THEN Raise(leftOverload.error, calls)
        ELSE IF IsFunction(leftOverload)
             THEN Return(ResultOf(leftOverload, leftValue, <<rightValue>>),
                         Append(calls, CallOf(leftOverload, leftValue, <<rightValue>>)))
        ELSE IF IsThrown(rightOverload) THEN Raise(rightOverload.error, calls)
        ELSE IF IsFunction(rightOverload)
             THEN Return(ResultOf(rightOverload, rightValue, <<leftValue>>),
                         Append(calls, CallOf(rightOverload, rightValue, <<leftValue>>)))
        ELSE Return(NativeResult(node.operation, <<leftValue, rightValue>>),
                    Append(calls, CallOf(Native(node.operation), Undefined, <<leftValue, rightValue>>)))

\* the outcome of a call made after the evaluations that left the calls given
Called(fn, this, args, calls) ==
    LET r == CallFunction(fn, this, args)
        made == Append(calls, CallOf(fn, this, args))
    IN  IF r.status = "throw" THEN Raise(r.error, made) ELSE Return(r.value, made)

\* Evaluater.evaluateAccessPropertyNode
evaluateAccessPropertyNode(e, node) ==
    LET left == evaluateNode(e, node.left)
        member == GetMember(left.value, Str(node.name))
    IN  IF left.status = "throw" THEN left
        ELSE IF member.status = "throw" THEN Raise(member.error, left.calls)
        ELSE Return(member.value, left.calls)

\* node.args.map((arg) => this.evaluateNode(arg)), from argument i on: the
\* values in order, or the first throw
RECURSIVE evaluateArguments(_, _, _, _, _)
evaluateArguments(e, args, i, values, calls) ==
    IF i > Len(args) THEN [status |-> "return", values |-> values, error |-> "", calls |-> calls]
    ELSE LET r == evaluateNode(e, args[i])
         IN  IF r.status = "throw"
             THEN [status |-> "throw", values |-> values, error |-> r.error, calls |-> calls \o r.calls]
             ELSE evaluateArguments(e, args, i + 1, Append(values, r.value), calls \o r.calls)

\* Evaluater.evaluateInvokeNode
evaluateInvokeNode(e, node) ==
    LET target == evaluateNode(e, node.target)
        args == evaluateArguments(e, node.args, 1, <<>>, target.calls)
    IN  IF target.status = "throw" THEN target
        ELSE IF args.status = "throw" THEN Raise(args.error, args.calls)
        ELSE IF ~IsFunction(target.value) THEN Raise("Cannot invoke non-function", args.calls)
        ELSE Called(target.value, Undefined, args.values, args.calls)

\* Evaluater.evaluateIndexingNode
evaluateIndexingNode(e, node) ==
    LET target == evaluateNode(e, node.target)
        fn == getOverloadOnInstance(e, target.value, Operations_symbol(Str("[i]")))
        index == evaluateNode(e, node.index)
        calls == target.calls \o index.calls
        member == GetMember(target.value, index.value)
    IN  IF target.status = "throw" THEN target
        ELSE IF IsThrown(fn) THEN Raise(fn.error, target.calls)
        ELSE IF index.status = "throw" THEN Raise(index.error, calls)
        ELSE IF IsFunction(fn) THEN Called(fn, target.value, <<index.value>>, calls)
        ELSE IF member.status = "throw" THEN Raise(member.error, calls)
        ELSE Return(member.value, calls)

\* ns.start ? this.evaluateNode(ns.start) : undefined
evaluateOptional(e, node) ==
    IF node = Undefined THEN Return(Undefined, <<>>) ELSE evaluateNode(e, node)

\* Evaluater.calculateSlice: start, then end, then step
calculateSlice(e, ns) ==
    LET start == evaluateOptional(e, ns.start)
        end == evaluateOptional(e, ns.end)
        step == evaluateOptional(e, ns.step)
    IN  IF start.status = "throw" THEN start
        ELSE IF end.status = "throw" THEN Raise(end.error, start.calls \o end.calls)
        ELSE IF step.status = "throw"
             THEN Raise(step.error, start.calls \o end.calls \o step.calls)
        ELSE Return([start |-> start.value, end |-> end.value, step |-> step.value],
                    start.calls \o end.calls \o step.calls)

\* node.slices.map((ns) => this.calculateSlice(ns)), from slice i on
RECURSIVE calculateSlices(_, _, _, _, _)
calculateSlices(e, slices, i, values, calls) ==
    IF i > Len(slices) THEN [status |-> "return", values |-> values, error |-> "", calls |-> calls]
    ELSE LET r == calculateSlice(e, slices[i])
         IN  IF r.status = "throw"
             THEN [status |-> "throw", values |-> values, error |-> r.error, calls |-> calls \o r.calls]
             ELSE calculateSlices(e, slices, i + 1, Append(values, r.value), calls \o r.calls)

\* Evaluater.evaluateSlicingNode
evaluateSlicingNode(e, node) ==
    LET target == evaluateNode(e, node.target)
        fn == getOverloadOnInstance(e, target.value, Operations_symbol(Str("[:]")))
        all == calculateSlices(e, node.slices, 1, <<>>, target.calls)
        slice == node.slices[1]
        one == calculateSlice(e, slice)
        calls == target.calls \o one.calls
        member == GetMember(target.value, one.value.start)
    IN  IF target.status = "throw" THEN target
        ELSE IF IsThrown(fn) THEN Raise(fn.error, target.calls)
        ELSE IF IsFunction(fn)
             THEN IF all.status = "throw" THEN Raise(all.error, all.calls)
                  ELSE Called(fn, target.value, <<all.values>>, all.calls)
        ELSE IF Len(node.slices) # 1 THEN Raise("Target does not support slicing", target.calls)
        ELSE IF slice.end # Undefined \/ slice.step # Undefined
             THEN Raise("Target does not support slicing with end or step", target.calls)
        ELSE IF one.status = "throw" THEN Raise(one.error, calls)
        ELSE IF member.status = "throw" THEN Raise(member.error, calls)
        ELSE Return(member.value, calls)

\* Evaluater.evaluateNode
evaluateNode(e, node) ==
    CASE node.type = "Value" -> evaluateValueNode(node)
      [] node.type = "Identifier" -> evaluateIdentifierNode(e, node)
      [] node.type = "Unary" -> evaluateUnaryNode(e, node)
      [] node.type = "Binary" -> evaluateBinaryNode(e, node)
      [] node.type = "AccessProperty" -> evaluateAccessPropertyNode(e, node)
      [] node.type = "Indexing" -> evaluateIndexingNode(e, node)
      [] node.type = "Slicing" -> evaluateSlicingNode(e, node)
      [] node.type = "Invoke" -> evaluateInvokeNode(e, node)
      [] OTHER -> Raise("Unknown node type", <<>>)

(***************************************************************************)
(* Dispatch specification: two engines, made with new Rop(), register      *)
(* overloads, classes declare operations on themselves, and expressions    *)
(* over embedded values are evaluated on either engine.                    *)
(***************************************************************************)
DispatchEngines == {1, 2}

Init ==
    /\ engines = DispatchEngines
    /\ overloadings = [e \in DispatchEngines |-> EmptyMap]
    /\ bindings = [e \in DispatchEngines |-> EmptyMap]
    /\ instance = Undefined
    /\ declared = [c \in Classes |-> EmptyMap]
    /\ last = [op |-> "none"]
    /\ tokens = <<>>
    /\ parsed = [status |-> "none"]
    /\ source = NoSource

\* the Maps and entries of the overload tables, and the operations the classes declare
RegisteredEntries ==
    UNION {UNION {{<<e, p, symbol>> : symbol \in DOMAIN overloadings[e][p]} :
                  p \in DOMAIN overloadings[e]} : e \in engines}
RegisteredMaps == UNION {{<<e, p>> : p \in DOMAIN overloadings[e]} : e \in engines}
DeclaredEntries == UNION {{<<c, symbol>> : symbol \in DOMAIN declared[c]} : c \in Classes}
OverloadCount ==
    Cardinality(RegisteredEntries) + Cardinality(DeclaredEntries)
    + Cardinality({m \in RegisteredMaps : DOMAIN overloadings[m[1]][m[2]] = {}})

\* rop.overload(clazz, op, operationFn)
overload(e, clazz, op, operationFn) ==
    /\ e \in engines
    /\ LET r == overloadOn(overloadings[e], clazz, op, operationFn)
       IN  /\ overloadings' = [overloadings EXCEPT ![e] = r.table]
           /\ last' = [op |-> "overload", engine |-> e,
                       status |-> IF r.threw THEN "throw" ELSE "return",
                       value |-> IF r.threw THEN Undefined ELSE RopRef(e)]
    /\ UNCHANGED <<engines, bindings, instance, declared, tokens, parsed, source>>

\* rop.overloads(clazz, def)
overloads(e, clazz, def) ==
    /\ e \in engines
    /\ LET r == overloadsOn(overloadings[e], clazz, def)
       IN  /\ overloadings' = [overloadings EXCEPT ![e] = r.table]
           /\ last' = [op |-> "overloads", engine |-> e,
                       status |-> IF r.threw THEN "throw" ELSE "return",
                       value |-> IF r.threw THEN Undefined ELSE RopRef(e)]
    /\ UNCHANGED <<engines, bindings, instance, declared, tokens, parsed, source>>

\* class c { [Rop.op(name)](...) {...} }: c.prototype gets value under the symbol
DeclareOnClass(c, symbol, value) ==
    /\ declared' = [declared EXCEPT ![c] = MapSet(@, symbol, value)]
    /\ last' = [op |-> "declare", cls |-> c]
    /\ UNCHANGED <<engines, overloadings, bindings, instance, tokens, parsed, source>>

\* new Evaluater(node, rop).evaluate()
Evaluate(e, node) ==
    /\ e \in engines
    /\ LET r == evaluateNode(e, node)
       IN  last' = [op |-> "evaluate", engine |-> e, node |-> node, status |-> r.status,
                    value |-> r.value, error |-> r.error, calls |-> r.calls]
    /\ UNCHANGED <<engines, overloadings, bindings, instance, declared, tokens, parsed, source>>

\* rop.getOverloadOnClass(clazz, symbol) and rop.getOverloadOnInstance(new clazz(), symbol)
LookupOverload(e, c, symbol) ==
    /\ e \in engines
    /\ LET onClass == getOverloadOnClass(e, Clazz(c), symbol)
           onInstance == getOverloadOnInstance(e, Instance(c), symbol)
       IN  last' = [op |-> "lookup", engine |-> e, cls |-> c, symbol |-> symbol,
                    onClass |-> onClass, onInstance |-> onInstance]
    /\ UNCHANGED <<engines, overloadings, bindings, instance, declared, tokens, parsed, source>>

(***************************************************************************)
(* The inputs of the dispatch specification.                               *)
(***************************************************************************)
OperandValues ==
    {Instance("Base"), Instance("Derived"), Primitive("String"), Null, Undefined}
BinaryOperandValues == {Instance("Derived"), Primitive("String"), Undefined}
OverloadClazzes == {Clazz(c) : c \in Classes} \cup {Fn("notAClass", "arrow")}
OverloadOps == {Str("+"), Sym("+"), Str("?")}
OverloadFns == {Fn("f", "method"), Fn("g", "arrow")}
OverloadDefs ==
    {<<[key |-> Str("?"), value |-> Fn("f", "method")], [key |-> Sym("~"), value |-> Fn("g", "arrow")]>>,
     <<[key |-> Str("+"), value |-> Fn("g", "arrow")], [key |-> Str("~"), value |-> NotCallable]>>}
DeclaredSymbols == {Sym("+")}
EvaluatedNodes ==
    {BinaryNode(ValueNode(EmbeddedToken(l)), "+", ValueNode(EmbeddedToken(r))) :
        l \in BinaryOperandValues, r \in BinaryOperandValues}
    \cup {UnaryNode("~", ValueNode(EmbeddedToken(v))) : v \in OperandValues}

CanRegister == OverloadCount < MaxOverloads

Next ==
    \/ CanRegister /\ \E e \in DispatchEngines, clazz \in OverloadClazzes :
          \E op \in OverloadOps, fn \in OverloadFns : overload(e, clazz, op, fn)
    \/ CanRegister /\ \E e \in DispatchEngines, clazz \in OverloadClazzes :
          \E def \in OverloadDefs : overloads(e, clazz, def)
    \/ CanRegister /\ \E c \in Classes, symbol \in DeclaredSymbols :
          \E value \in {DeclaredMethod(c, symbol), NotCallable} : DeclareOnClass(c, symbol, value)
    \/ \E e \in DispatchEngines, node \in EvaluatedNodes : Evaluate(e, node)
    \/ \E e \in DispatchEngines, c \in Classes : LookupOverload(e, c, Sym("+"))

Spec == Init /\ [][Next]_vars

(***************************************************************************)
(* Claims about overload resolution and dispatch (C1 - C5).                *)
(***************************************************************************)
\* the classes on the prototype chain of a value, nearest first
RECURSIVE ClassChain(_)
ClassChain(c) == IF c = "Object" THEN <<"Object">> ELSE <<c>> \o ClassChain(ParentOf(c))
ValueChain(v) == IF v.k \in {"object", "primitive"} THEN ClassChain(v.cls) ELSE <<>>

\* what engine e has registered for the class and the symbol, and what the class declares
RegisteredFor(e, c, symbol) ==
    IF MapHas(overloadings[e], Prototype(c)) /\ MapHas(overloadings[e][Prototype(c)], symbol)
    THEN {overloadings[e][Prototype(c)][symbol]} ELSE {}
DeclaredBy(c, symbol) ==
    IF c \in Classes /\ MapHas(declared[c], symbol) /\ IsFunction(declared[c][symbol])
    THEN {declared[c][symbol]} ELSE {}
OverloadsOf(e, c, symbol) == RegisteredFor(e, c, symbol) \cup DeclaredBy(c, symbol)
HasNoOverload(e, v, symbol) ==
    \A i \in DOMAIN ValueChain(v) : OverloadsOf(e, ValueChain(v)[i], symbol) = {}

EvaluatedBinary == last.op = "evaluate" /\ last.node.type = "Binary"
EvaluatedUnary == last.op = "evaluate" /\ last.node.type = "Unary"
LeftValue == last.node.left.token.value
RightValue == last.node.right.token.value
OperandValue == last.node.operand.token.value
LastSymbol == Sym(last.node.operation)

\* C1 (as claimed): evaluating a Binary node invokes exactly one implementation, once:
\* the left operand's overload with (receiver left, argument right) if the lookup on
\* the left operand finds one, else the right operand's overload with (receiver right,
\* argument left) if the lookup on the right operand finds one, else the native
\* fallback with (left, right).
C1_ExactlyOneDispatch ==
    EvaluatedBinary =>
        LET leftOverload == getOverloadOnInstance(last.engine, LeftValue, LastSymbol)
            rightOverload == getOverloadOnInstance(last.engine, RightValue, LastSymbol)
        IN  last.calls =
              << IF IsFunction(leftOverload) THEN CallOf(leftOverload, LeftValue, <<RightValue>>)
                 ELSE IF IsFunction(rightOverload)
                      THEN CallOf(rightOverload, RightValue, <<LeftValue>>)
                 ELSE CallOf(Native(last.node.operation), Undefined, <<LeftValue, RightValue>>) >>

\* C2 (as claimed): when engine E has a registration for (C, t) and C declares t as a
\* method on C.prototype, the lookup on an instance of C through E and the lookup on
\* the class C both return E's registration.
C2_RegistrationBeforeDeclaration ==
    (/\ last.op = "lookup"
     /\ RegisteredFor(last.engine, last.cls, last.symbol) # {}
     /\ DeclaredBy(last.cls, last.symbol) # {})
    => /\ last.onInstance \in RegisteredFor(last.engine, last.cls, last.symbol)
       /\ last.onClass = last.onInstance

\* C3 (as claimed): the lookup returns the hit nearest to the value: an instance of
\* Derived gets Derived's overload when Derived has one and Base's when only Base has
\* one; an instance of Base gets Base's.
C3_NearestOverload ==
    last.op = "lookup" =>
        LET own(c) == OverloadsOf(last.engine, c, last.symbol)
        IN  /\ (last.cls = "Derived" /\ own("Derived") # {}) => last.onInstance \in own("Derived")
            /\ (last.cls = "Derived" /\ own("Derived") = {} /\ own("Base") # {})
                  => last.onInstance \in own("Base")
            /\ (last.cls = "Base" /\ own("Base") # {}) => last.onInstance \in own("Base")

\* C4 (as claimed): for operands with no matching overload - objects, primitives, null,
\* undefined - the lookup reports no overload without raising an error, and the unary
\* or binary evaluation returns the result of the native fallback.
C4_NoOverloadFallsBackToNative ==
    /\ (EvaluatedUnary /\ HasNoOverload(last.engine, OperandValue, LastSymbol))
          => /\ last.status = "return"
             /\ last.calls = <<CallOf(Native(last.node.operation), Undefined,
                                      <<OperandValue, Undefined>>)>>
    /\ (EvaluatedBinary /\ HasNoOverload(last.engine, LeftValue, LastSymbol)
                        /\ HasNoOverload(last.engine, RightValue, LastSymbol))
          => /\ last.status = "return"
             /\ last.calls = <<CallOf(Native(last.node.operation), Undefined,
                                      <<LeftValue, RightValue>>)>>

\* the nearest class on the chain of v that declares the symbol as a method
DeclaringClasses(v, symbol) ==
    {i \in DOMAIN ValueChain(v) : DeclaredBy(ValueChain(v)[i], symbol) # {}}
NearestDeclared(v, symbol) ==
    LET i == CHOOSE i \in DeclaringClasses(v, symbol) :
                \A j \in DeclaringClasses(v, symbol) : i <= j
    IN  declared[ValueChain(v)[i]][symbol]
HasNoRegistration(e, v, symbol) ==
    \A i \in DOMAIN ValueChain(v) : RegisteredFor(e, ValueChain(v)[i], symbol) = {}

\* C5: an operation a class declares on itself is used by every engine that has
\* registered nothing for it, with no registration call; what one engine registered
\* is not seen by another engine: on an engine that registered nothing for the
\* operand's classes, lookup and dispatch go to the declared method, and to no
\* overload at all when no class declares one, whatever the other engine registered.
C5_DeclaredSharedRegisteredLocal ==
    /\ (last.op = "lookup"
        /\ HasNoRegistration(last.engine, Instance(last.cls), last.symbol))
          => IF DeclaringClasses(Instance(last.cls), last.symbol) # {}
             THEN /\ last.onInstance = NearestDeclared(Instance(last.cls), last.symbol)
                  /\ last.onClass = last.onInstance
             ELSE last.onInstance = Null /\ last.onClass = Null
    /\ (EvaluatedBinary /\ LeftValue.k \in {"object", "primitive"}
        /\ HasNoRegistration(last.engine, LeftValue, LastSymbol))
          => IF DeclaringClasses(LeftValue, LastSymbol) # {}
             THEN last.calls =
                    <<CallOf(NearestDeclared(LeftValue, LastSymbol), LeftValue, <<RightValue>>)>>
             ELSE \A i \in DOMAIN last.calls :
                     last.calls[i].this # LeftValue \/ last.calls[i].args # <<RightValue>>
    /\ (EvaluatedUnary /\ HasNoRegistration(last.engine, OperandValue, LastSymbol))
          => \A i \in DOMAIN last.calls : last.calls[i].fn.shape = "native"

\* C5 witness: engine 1 registered "+" for Derived, Base declares "+", and engine 2
\* evaluated derived + x: it dispatched to the method Base declares
C5_Witness ==
    /\ EvaluatedBinary /\ last.engine = 2
    /\ LeftValue = Instance("Derived")
    /\ RegisteredFor(1, "Derived", Sym("+")) # {}
    /\ DeclaredBy("Base", Sym("+")) # {}
    /\ last.calls = <<CallOf(DeclaredMethod("Base", Sym("+")), LeftValue, <<RightValue>>)>>

(***************************************************************************)
(* Rop: the binding table of an engine.                                    *)
(***************************************************************************)
\* { key: value, ... } and new Map([[key, value], ...]); entries is the sequence
\* of [key, value] records in insertion order, the keys distinct
ObjectOf(entries) == [k |-> "object", cls |-> "Object", entries |-> entries]
MapOf(entries) == [k |-> "object", cls |-> "Map", entries |-> entries]

\* v instanceof Map
InstanceofMap(v) == v.k = "object" /\ v.cls = "Map"
\* map.entries()
MapEntries(map) == map.entries
\* Object.entries(obj): the own enumerable string-keyed properties; a Map has none
ObjectEntries(obj) == IF InstanceofMap(obj) THEN <<>> ELSE obj.entries

\* for (const [key, value] of entries) this.bindings.set(key, value), from entry i on
RECURSIVE setEntries(_, _, _)
setEntries(table, entries, i) ==
    IF i > Len(entries) THEN table
    ELSE setEntries(MapSet(table, entries[i].key, entries[i].value), entries, i + 1)

\* mutant: bind without the Map branch
bindOn_NoMapBranch(table, args) ==
    IF args[1].k = "string" THEN MapSet(table, args[1].s, args[2])
    ELSE setEntries(table, ObjectEntries(args[1]), 1)

\* the body of Rop.bind(...args): the binding table it leaves
bindOn(table, args) ==
    IF args[1].k = "string" THEN MapSet(table, args[1].s, args[2])
    ELSE IF InstanceofMap(args[1]) THEN setEntries(table, MapEntries(args[1]), 1)
    ELSE setEntries(table, ObjectEntries(args[1]), 1)

\* the body of Rop.unbind(...keys), from key i on
RECURSIVE unbindOn(_, _, _)
unbindOn(table, keys, i) ==
    IF i > Len(keys) THEN table
    ELSE unbindOn(MapDelete(table, keys[i]), keys, i + 1)

\* rop.bind(...args)
bind(e, args) ==
    /\ e \in engines
    /\ bindings' = [bindings EXCEPT ![e] = bindOn(@, args)]
    /\ last' = [op |-> "bind", engine |-> e, args |-> args, status |-> "return",
                value |-> RopRef(e)]
    /\ UNCHANGED <<engines, overloadings, instance, declared, tokens, parsed, source>>

\* rop.unbind(...keys)
unbind(e, keys) ==
    /\ e \in engines
    /\ bindings' = [bindings EXCEPT ![e] = unbindOn(@, keys, 1)]
    /\ last' = [op |-> "unbind", engine |-> e, keys |-> keys, status |-> "return",
                value |-> RopRef(e)]
    /\ UNCHANGED <<engines, overloadings, instance, declared, tokens, parsed, source>>

(***************************************************************************)
(* Binding specification: two engines, made with new Rop(), bind and       *)
(* unbind names in the three forms, and identifiers are evaluated.          *)
(***************************************************************************)
BindNames == {"a", "b"}
BindValues == {Primitive("Number"), Undefined, Null}
BulkValues == {Primitive("Number"), Undefined}
BindEntries == {[key |-> n, value |-> v] : n \in BindNames, v \in BulkValues}
EntryLists ==
    UNION {{s \in [1..n -> BindEntries] : \A i, j \in 1..n : s[i].key = s[j].key => i = j} :
              n \in 0..MaxPairs}
BindArgs ==
    {<<Str(n), v>> : n \in BindNames, v \in BindValues}
    \cup {<<ObjectOf(entries)>> : entries \in EntryLists}
    \cup {<<MapOf(entries)>> : entries \in EntryLists}
UnbindKeys == UNION {[1..n -> BindNames] : n \in 0..MaxKeys}

NextBind ==
    \/ \E e \in DispatchEngines, args \in BindArgs : bind(e, args)
    \/ \E e \in DispatchEngines, keys \in UnbindKeys : unbind(e, keys)
    \/ \E e \in DispatchEngines, n \in BindNames : Evaluate(e, IdentifierNode(n))

SpecBind == Init /\ [][NextBind]_vars

(***************************************************************************)
(* Claims about the binding table (C7, C8).                                *)
(***************************************************************************)
\* the (name, value) pairs a bind call gives, whatever its form
PairsOf(args) ==
    IF args[1].k = "string" THEN <<[key |-> args[1].s, value |-> args[2]]>>
    ELSE args[1].entries
\* the map after an upsert of every pair, in order
Upserted(m, pairs) ==
    LET keys == {pairs[i].key : i \in DOMAIN pairs}
        lastOf(x) == CHOOSE i \in DOMAIN pairs :
                        /\ pairs[i].key = x
                        /\ \A j \in DOMAIN pairs : pairs[j].key = x => j <= i
    IN  [x \in (DOMAIN m) \cup keys |-> IF x \in keys THEN pairs[lastOf(x)].value ELSE m[x]]
\* the map after a delete of every name
Deleted(m, keys) == [x \in (DOMAIN m) \ Range(keys) |-> m[x]]

\* C7: a bind call, in any of its three forms, leaves the engine's binding table as
\* the upsert of its pairs into the table before the call, an unbind call leaves it as
\* the table before the call without the names given; the tables of the other engines
\* are not touched, and the call returns the engine it was made on.
C7_BindIsUpsertUnbindIsDelete ==
    [][/\ last'.op = "bind" =>
            /\ bindings'[last'.engine] = Upserted(bindings[last'.engine], PairsOf(last'.args))
            /\ \A e \in engines \ {last'.engine} : bindings'[e] = bindings[e]
            /\ last'.value = RopRef(last'.engine)
       /\ last'.op = "unbind" =>
            /\ bindings'[last'.engine] = Deleted(bindings[last'.engine], last'.keys)
            /\ \A e \in engines \ {last'.engine} : bindings'[e] = bindings[e]
            /\ last'.value = RopRef(last'.engine)]_vars

\* C7 witness: a Map of two pairs was bound on engine 1, over an older value of one of
\* the names, while engine 2 holds a table of its own
C7_Witness ==
    /\ last.op = "bind" /\ last.engine = 1
    /\ InstanceofMap(last.args[1]) /\ Len(last.args[1].entries) = 2
    /\ bindings[1] = [n \in BindNames |-> IF n = "a" THEN Undefined ELSE Primitive("Number")]
    /\ bindings[2] = [n \in {"b"} |-> Null]

\* C8: evaluating an Identifier node returns the value bound to the name, undefined and
\* null included, when the table has the name, and fails with the unknown-identifier
\* error exactly when the table has not; after unbind the names unbound fail.
C8_IdentifierFailsIffAbsent ==
    /\ (last.op = "evaluate" /\ last.node.type = "Identifier") =>
          IF last.node.name \in DOMAIN bindings[last.engine]
          THEN last.status = "return" /\ last.value = bindings[last.engine][last.node.name]
          ELSE last.status = "throw" /\ last.error = "Unknown identifier"
    /\ last.op = "unbind" =>
          \A i \in DOMAIN last.keys :
             LET r == evaluateNode(last.engine, IdentifierNode(last.keys[i]))
             IN  r.status = "throw" /\ r.error = "Unknown identifier"

\* C8 witness: a name bound to undefined was evaluated and gave undefined
C8_Witness ==
    /\ last.op = "evaluate" /\ last.node.type = "Identifier"
    /\ last.node.name \in DOMAIN bindings[last.engine]
    /\ bindings[last.engine][last.node.name] = Undefined
    /\ last.status = "return" /\ last.value = Undefined

(***************************************************************************)
(* Rop: the builtins and the process-wide default engine.                  *)
(***************************************************************************)
\* the values of the host's globals
DefaultValue(name) ==
    CASE name = "null" -> Null
      [] name = "undefined" -> Undefined
      [] name \in {"true", "false"} -> [k |-> "primitive", cls |-> "Boolean", v |-> name]
      [] name \in {"Infinity", "NaN"} -> [k |-> "primitive", cls |-> "Number", v |-> name]
      [] name \in {"JSON", "Math"} -> [k |-> "object", cls |-> "Object", name |-> name]
      [] OTHER -> Clazz(name)

\* the keys of the object literal of bindDefaults, in order
DefaultNames ==
    <<"true", "false", "null", "undefined", "Infinity", "NaN", "Object", "Number", "BigInt",
      "String", "Boolean", "Array", "Date", "Symbol", "JSON", "Math">>

\* Object.getOwnPropertyNames(Math): the host decides the list; these stand for it
MathPropertyNames == <<"E", "PI", "abs", "max", "min", "sin">>
\* Reflect.get(Math, name)
MathProperty(name) == [k |-> "host", of |-> "Math", name |-> name]

\* Rop.bindDefaults on a binding table
bindDefaults(table) ==
    bindOn(table, <<ObjectOf([i \in DOMAIN DefaultNames |->
                                 [key |-> DefaultNames[i], value |-> DefaultValue(DefaultNames[i])]])>>)

\* Rop.bindMaths on a binding table
bindMaths(table) ==
    bindOn(table, <<ObjectOf([i \in DOMAIN MathPropertyNames |->
                                 [key |-> MathPropertyNames[i],
                                  value |-> MathProperty(MathPropertyNames[i])]])>>)

\* Rop.overloadDefaults on an overload table
overloadDefaults(table) ==
    LET t1 == overloadsOn(table, Clazz("Array"),
                  <<[key |-> Str("+"), value |-> Fn("Array +", "arrow")],
                    [key |-> Str("[i]"), value |-> Fn("Array [i]", "method")],
                    [key |-> Str("[:]"), value |-> Fn("Array [:]", "method")]>>).table
        t2 == overloadsOn(t1, Clazz("String"),
                  <<[key |-> Str("*"), value |-> Fn("String *", "arrow")]>>).table
    IN  overloadsOn(t2, Clazz("Set"),
                  <<[key |-> Str("+"), value |-> Fn("Set +", "arrow")],
                    [key |-> Str("-"), value |-> Fn("Set -", "arrow")]>>).table

\* the id of the next Rop object
NewId == Cardinality(engines) + 1

\* new Rop()
NewRop ==
    /\ NewId <= MaxEngines
    /\ engines' = engines \cup {NewId}
    /\ bindings' = MapSet(bindings, NewId, EmptyMap)
    /\ overloadings' = MapSet(overloadings, NewId, EmptyMap)
    /\ last' = [op |-> "new", status |-> "return", value |-> RopRef(NewId)]
    /\ UNCHANGED <<instance, declared, tokens, parsed, source>>

\* mutant: the getter makes a new default engine on every access
INST_AlwaysNew ==
    /\ NewId <= MaxEngines
    /\ engines' = engines \cup {NewId}
    /\ bindings' = MapSet(bindings, NewId, bindMaths(bindDefaults(EmptyMap)))
    /\ overloadings' = MapSet(overloadings, NewId, overloadDefaults(EmptyMap))
    /\ instance' = RopRef(NewId)
    /\ last' = [op |-> "INST", status |-> "return", value |-> RopRef(NewId)]
    /\ UNCHANGED <<declared, tokens, parsed, source>>

\* Rop.INST
INST ==
    /\ IF instance = Undefined
       THEN /\ NewId <= MaxEngines
            /\ engines' = engines \cup {NewId}
            /\ bindings' = MapSet(bindings, NewId, bindMaths(bindDefaults(EmptyMap)))
            /\ overloadings' = MapSet(overloadings, NewId, overloadDefaults(EmptyMap))
            /\ instance' = RopRef(NewId)
       ELSE UNCHANGED <<engines, bindings, overloadings, instance>>
    /\ last' = [op |-> "INST", status |-> "return", value |-> instance']
    /\ UNCHANGED <<declared, tokens, parsed, source>>

\* Rop.resetDefaultInstance()
resetDefaultInstance ==
    /\ instance' = Undefined
    /\ last' = [op |-> "reset", status |-> "return", value |-> Undefined]
    /\ UNCHANGED <<engines, overloadings, bindings, declared, tokens, parsed, source>>

(***************************************************************************)
(* Singleton specification: engines are made with new Rop() or by the      *)
(* first access to Rop.INST, any of them binds, unbinds and overloads, and *)
(* the default engine is reset.                                            *)
(***************************************************************************)
InitSingleton ==
    /\ engines = {}
    /\ overloadings = EmptyMap
    /\ bindings = EmptyMap
    /\ instance = Undefined
    /\ declared = [c \in Classes |-> EmptyMap]
    /\ last = [op |-> "none"]
    /\ tokens = <<>>
    /\ parsed = [status |-> "none"]
    /\ source = NoSource

NextSingleton ==
    \/ NewRop
    \/ INST
    \/ resetDefaultInstance
    \/ \E e \in engines : bind(e, <<Str("a"), Primitive("Number")>>)
    \/ \E e \in engines : unbind(e, <<"true">>)
    \/ \E e \in engines : overload(e, Clazz("String"), Str("*"), Fn("f", "method"))

SpecSingleton == InitSingleton /\ [][NextSingleton]_vars

(***************************************************************************)
(* Claim about the default engine (C6).                                    *)
(***************************************************************************)
\* what a default engine holds when it is made
DefaultBindings ==
    [n \in Range(DefaultNames) \cup Range(MathPropertyNames) |->
        IF n \in Range(MathPropertyNames) THEN MathProperty(n) ELSE DefaultValue(n)]
DefaultOverloadings ==
    [p \in {Prototype("Array"), Prototype("String"), Prototype("Set")} |->
        CASE p = Prototype("Array") ->
                [t \in {Sym("+"), Sym("[i]"), Sym("[:]")} |->
                    CASE t = Sym("+") -> Wrapper(Fn("Array +", "arrow"))
                      [] t = Sym("[i]") -> Fn("Array [i]", "method")
                      [] t = Sym("[:]") -> Fn("Array [:]", "method")]
          [] p = Prototype("String") -> [t \in {Sym("*")} |-> Wrapper(Fn("String *", "arrow"))]
          [] p = Prototype("Set") ->
                [t \in {Sym("+"), Sym("-")} |->
                    IF t = Sym("+") THEN Wrapper(Fn("Set +", "arrow"))
                    ELSE Wrapper(Fn("Set -", "arrow"))]]
TablesUnchanged ==
    \A e \in engines : bindings'[e] = bindings[e] /\ overloadings'[e] = overloadings[e]

\* C6: an access to Rop.INST returns the default engine; while there is one (no reset
\* since the access that made it) every access returns that same engine and changes
\* no table; the first access, and the first after a reset, returns a new engine that
\* holds exactly the default bindings and default overloads; a reset changes the
\* bindings and overloads of no engine; and no bind, unbind, overload or new Rop()
\* changes which engine is the default one.
C6_SingletonAndReset ==
    [][/\ last'.op = "INST" =>
            /\ last'.value = instance'
            /\ instance # Undefined =>
                  /\ last'.value = instance
                  /\ engines' = engines /\ TablesUnchanged
            /\ instance = Undefined =>
                  /\ last'.value.id \notin engines
                  /\ bindings'[last'.value.id] = DefaultBindings
                  /\ overloadings'[last'.value.id] = DefaultOverloadings
                  /\ TablesUnchanged
       /\ last'.op = "reset" =>
            /\ instance' = Undefined
            /\ engines' = engines /\ TablesUnchanged
       /\ last'.op \notin {"INST", "reset"} => instance' = instance]_vars

\* C6 witness: an access after a reset made engine 3 with the defaults only, while
\* engine 2, the default engine before the reset, has lost true and got a and an
\* overload of its own, and engine 1, made with new Rop(), still holds its binding
C6_Witness ==
    /\ last.op = "INST" /\ last.value = RopRef(3) /\ instance = RopRef(3)
    /\ bindings[3] = DefaultBindings /\ overloadings[3] = DefaultOverloadings
    /\ MapHas(overloadings[2], Prototype("Array"))
    /\ "a" \in DOMAIN bindings[2] /\ "true" \notin DOMAIN bindings[2]
    /\ overloadings[2][Prototype("String")][Sym("*")] = Fn("f", "method")
    /\ ~MapHas(overloadings[1], Prototype("Array"))
    /\ DOMAIN bindings[1] = {"a"}

(***************************************************************************)
(* Operations: operator literals.  "" stands for the null the lookups      *)
(* return for a literal without a unary or binary operation.               *)
(***************************************************************************)
\* OPERATOR_LITERAL_TO_NAME_MAP.get(literal)?.unary || null
unaryFromLiteral(literal) ==
    IF \E n \in Range(UNARY_OPERATOR_NAMES) : OperationLiteral(n) = literal
    THEN CHOOSE n \in Range(UNARY_OPERATOR_NAMES) : OperationLiteral(n) = literal
    ELSE ""

\* OPERATOR_LITERAL_TO_NAME_MAP.get(literal)?.binary || null
binaryFromLiteral(literal) ==
    IF \E n \in Range(BINARY_OPERATOR_NAMES) : OperationLiteral(n) = literal
    THEN CHOOSE n \in Range(BINARY_OPERATOR_NAMES) : OperationLiteral(n) = literal
    ELSE ""

(***************************************************************************)
(* Expression nodes of the postfix forms.                                  *)
(***************************************************************************)
AccessPropertyNode(left, name) == [type |-> "AccessProperty", left |-> left, name |-> name]
InvokeNode(target, args) == [type |-> "Invoke", target |-> target, args |-> args]
IndexingNode(target, index) == [type |-> "Indexing", target |-> target, index |-> index]
SlicingNode(target, slices) == [type |-> "Slicing", target |-> target, slices |-> slices]
\* mutant: end and step taken from each other's place
NodeSlice_Swapped(slice) ==
    [start |-> MapGet(slice, 0), end |-> MapGet(slice, 2), step |-> MapGet(slice, 1)]
\* { start: slice[0], end: slice[1], step: slice[2] } of the sparse array slice
NodeSlice(slice) ==
    [start |-> MapGet(slice, 0), end |-> MapGet(slice, 1), step |-> MapGet(slice, 2)]

(***************************************************************************)
(* TokenWalker.  position counts the tokens consumed, from 0.              *)
(***************************************************************************)
\* TokenWalker.peek()
peek(toks, position) ==
    IF position >= 0 /\ position < Len(toks) THEN toks[position + 1] ELSE Null
\* mutant: consume and skip without the limit of the list length
consume_Unbounded(toks, position) == position + 1
\* TokenWalker.consume() and TokenWalker.skip(): the position they leave
consume(toks, position) == IF position + 1 < Len(toks) THEN position + 1 ELSE Len(toks)
\* TokenWalker.isFinished()
isFinished(toks, position) == position >= Len(toks)

\* AstParser.skipWhitespace: the position it leaves
RECURSIVE skipWhitespace(_, _)
skipWhitespace(toks, position) ==
    IF peek(toks, position) # Null /\ peek(toks, position).type = "Whitespace"
    THEN skipWhitespace(toks, consume(toks, position))
    ELSE position

\* AstParser.peekPunctuation(literal) # null
peekPunctuation(toks, position, literal) ==
    LET p == peek(toks, position)
    IN  p # Null /\ p.type = "Punctuation" /\ p.literal = literal

(***************************************************************************)
(* AstParser.  A parsing method returns a node and the position it leaves, *)
(* or throws.                                                              *)
(***************************************************************************)
Parsed(node, position) ==
    [status |-> "return", node |-> node, position |-> position, error |-> ""]
Failed(error, position) ==
    [status |-> "throw", node |-> Null, position |-> position, error |-> error]

\* mutant: no operator is right associative
isRightAssociative_Never(operator) == FALSE
\* const isRightAssociative = operator === '**'
isRightAssociative(operator) == operator = "**"

\* mutant: the operand of a prefix operator is parsed above every multiplicative operator
unaryOperandPrecedence_Tight(meta) == meta.precedence + 1
\* the precedence parseAtom gives to parseExpression for the operand of a prefix operator
unaryOperandPrecedence(meta) == meta.precedence

RECURSIVE parseExpression(_, _, _)
RECURSIVE parseExpressionLoop(_, _, _, _)
RECURSIVE parseArguments(_, _, _)
RECURSIVE parseSubscript(_, _, _, _, _, _)
RECURSIVE parseSlice(_, _, _, _, _, _)

\* AstParser.parseAtom
parseAtom(toks, position0) ==
    LET position == skipWhitespace(toks, position0)
        token == peek(toks, position)
        after == position + 1
    IN  IF token = Null THEN Failed("Unexpected end of expression", position)
        ELSE CASE token.type \in {"Embedded", "Constant"} -> Parsed(ValueNode(token), after)
               [] token.type = "Identifier" -> Parsed(IdentifierNode(token.literal), after)
               [] token.type = "Operator" ->
                    LET unaryOperatorName == unaryFromLiteral(token.literal)
                        meta == Operations_meta(Str(unaryOperatorName))
                        operand == parseExpression(toks, after, unaryOperandPrecedence(meta))
                    IN  IF unaryOperatorName = "" THEN Failed("Unexpected operator", after)
                        ELSE IF meta.type # "unary" THEN Failed("Never!", after)
                        ELSE IF operand.status = "throw" THEN operand
                        ELSE Parsed(UnaryNode(unaryOperatorName, operand.node), operand.position)
               [] token.type = "Punctuation" ->
                    IF token.literal = "("
                    THEN LET expr == parseExpression(toks, after, 0)
                             close == skipWhitespace(toks, expr.position)
                         IN  IF expr.status = "throw" THEN expr
                             ELSE IF ~peekPunctuation(toks, close, ")")
                                  THEN Failed("Expected closing parenthesis", close)
                             ELSE Parsed(expr.node, close + 1)
                    ELSE Failed("Unexpected punctuation", after)
               [] token.type = "Whitespace" -> Failed("Unexpected whitespace token", after)
               [] OTHER -> Failed("Unknown token type", after)

\* AstParser.parseExpression
parseExpression(toks, position, precedence) ==
    LET left == parseAtom(toks, position)
    IN  IF left.status = "throw" THEN left
        ELSE parseExpressionLoop(toks, left.position, left.node, precedence)

\* one turn of the loop loop_parse_exp of parseExpression, and the turns after it
parseExpressionLoop(toks, position0, left, precedence) ==
    LET position == skipWhitespace(toks, position0)
        token == peek(toks, position)
    IN  IF token = Null THEN Parsed(left, position)
        ELSE IF token.type = "Operator"
        THEN LET operator == binaryFromLiteral(token.literal)
                 meta == Operations_meta(Str(operator))
                 right == parseExpression(toks, consume(toks, position),
                              IF isRightAssociative(operator) THEN meta.precedence
                              ELSE meta.precedence + 1)
             IN  IF operator = "" THEN Failed("Unexpected token, binary operator expected", position)
                 ELSE IF meta.type # "binary" THEN Failed("Never!", position)
                 ELSE IF meta.precedence < precedence THEN Parsed(left, position)
                 ELSE IF right.status = "throw" THEN right
                 ELSE parseExpressionLoop(toks, right.position,
                                          BinaryNode(left, operator, right.node), precedence)
        ELSE IF token.type = "Punctuation" /\ token.literal = "."
        THEN LET at == skipWhitespace(toks, consume(toks, position))
                 prop == peek(toks, at)
             IN  IF prop # Null /\ prop.type = "Identifier"
                 THEN parseExpressionLoop(toks, consume(toks, at),
                                          AccessPropertyNode(left, prop.literal), precedence)
                 ELSE Failed("Expected identifier after dot", at)
        ELSE IF token.type = "Punctuation" /\ token.literal = "("
        THEN LET r == parseArguments(toks, consume(toks, position), <<>>)
             IN  IF r.status = "throw" THEN r
                 ELSE parseExpressionLoop(toks, r.position, InvokeNode(left, r.node), precedence)
        ELSE IF token.type = "Punctuation" /\ token.literal = "["
        THEN LET open == skipWhitespace(toks, consume(toks, position))
                 r == parseSubscript(toks, open, left, <<>>, FALSE, 0)
             IN  IF peekPunctuation(toks, open, "]")
                 THEN Failed("Empty subscript is not allowed", consume(toks, open))
                 ELSE IF r.status = "throw" THEN r
                 ELSE parseExpressionLoop(toks, r.position, r.node, precedence)
        ELSE Parsed(left, position)

\* the argument loop of the '(' case of parseExpression: the arguments and the
\* position after the closing parenthesis
parseArguments(toks, position0, args) ==
    LET position == skipWhitespace(toks, position0)
        arg == parseExpression(toks, position, 0)
        comma == skipWhitespace(toks, arg.position)
    IN  IF peekPunctuation(toks, position, ")") THEN Parsed(args, position + 1)
        ELSE IF arg.status = "throw" THEN arg
        ELSE parseArguments(toks,
                            IF peekPunctuation(toks, comma, ",") THEN comma + 1 ELSE comma,
                            Append(args, arg.node))

\* the inner loop of the '[' case, which reads one slice: the sparse array slice,
\* the count of colons, hasExpression, isSlicing, and the position it leaves
parseSlice(toks, position, slice, colons, hasExpression, isSlicing) ==
    LET p == peek(toks, position)
        willBeExpression ==
            ~(p # Null /\ p.type = "Punctuation" /\ p.literal \in {"]", ",", ":"})
        s == parseExpression(toks, position, 0)
    IN  IF peekPunctuation(toks, position, ",") \/ peekPunctuation(toks, position, "]")
        THEN [status |-> "return", position |-> position, slice |-> slice, colons |-> colons,
              hasExpression |-> hasExpression, isSlicing |-> isSlicing]
        ELSE IF peekPunctuation(toks, position, ":")
        THEN parseSlice(toks, consume(toks, position), slice, colons + 1, hasExpression, TRUE)
        ELSE IF ~willBeExpression
        THEN parseSlice(toks, position, slice, colons, hasExpression, isSlicing)
        ELSE IF s.status = "throw" THEN s
        ELSE parseSlice(toks, s.position, MapSet(slice, colons, s.node), colons, TRUE, isSlicing)

\* the outer loop of the '[' case and the choice of the node after it
parseSubscript(toks, position0, left, slices0, isSlicing0, elementCount0) ==
    LET r == parseSlice(toks, skipWhitespace(toks, position0), EmptyMap, 0, FALSE, isSlicing0)
        some == r.hasExpression \/ r.colons > 0
        elementCount == IF some THEN elementCount0 + 1 ELSE elementCount0
        slices == IF some THEN Append(slices0, NodeSlice(r.slice)) ELSE slices0
        position == skipWhitespace(toks, r.position)
    IN  IF r.status = "throw" THEN r
        ELSE IF peekPunctuation(toks, position, ",")
        THEN parseSubscript(toks, position + 1, left, slices, TRUE, elementCount)
        ELSE IF peekPunctuation(toks, position, "]")
        THEN IF elementCount = 0
             THEN Failed("Empty indexing or slicing expression", position + 1)
             ELSE IF r.isSlicing \/ Len(slices) > 1
             THEN Parsed(SlicingNode(left, slices), position + 1)
             ELSE IF Len(slices) = 1
             THEN IF /\ slices[1].start # Undefined
                     /\ slices[1].end = Undefined
                     /\ slices[1].step = Undefined
                  THEN Parsed(IndexingNode(left, slices[1].start), position + 1)
                  ELSE Parsed(SlicingNode(left, slices), position + 1)
             ELSE Parsed(left, position + 1)
        ELSE parseSubscript(toks, position, left, slices, r.isSlicing, elementCount)

\* mutant: parse without the check for tokens left over
parse_LeftoverIgnored(toks) ==
    LET start == skipWhitespace(toks, 0)
        result == parseExpression(toks, start, 0)
    IN  IF isFinished(toks, start) THEN Failed("Empty expression", start)
        ELSE result

\* AstParser.parse
parse(toks) ==
    LET start == skipWhitespace(toks, 0)
        result == parseExpression(toks, start, 0)
        end == skipWhitespace(toks, result.position)
    IN  IF isFinished(toks, start) THEN Failed("Empty expression", start)
        ELSE IF result.status = "throw" THEN result
        ELSE IF ~isFinished(toks, end) THEN Failed("Unexpected token at end of expression", end)
        ELSE Parsed(result.node, end)

(***************************************************************************)
(* Parser specification: a token list is given to new AstParser(tokens)    *)
(* and parse() is called on it.  The token lists are operator chains:      *)
(* atoms joined by binary operators, each atom under some prefix           *)
(* operators, with or without the Whitespace tokens kept.                  *)
(***************************************************************************)
UnaryLiterals == {OperationLiteral(n) : n \in Range(UNARY_OPERATOR_NAMES)}
BinaryLiterals == {OperationLiteral(n) : n \in Range(BINARY_OPERATOR_NAMES)}
\* the binary operators joined with prefixed atoms: one below, one at and one above
\* the precedence of the prefix operators
PrefixedLiterals == {"+", "*", "**"}

\* the i-th atom of a chain: an identifier, a constant or an embedded value
AtomToken(i) ==
    CASE i % 3 = 1 -> IdentifierToken("x" \o ToString(i))
      [] i % 3 = 2 -> ConstantToken(ToString(i))
      [] OTHER -> EmbeddedToken([k |-> "object", cls |-> "Base", n |-> i])

RECURSIVE SumTo(_, _)
SumTo(counts, i) == IF i = 0 THEN 0 ELSE counts[i] + SumTo(counts, i - 1)

\* the prefix operators of the atoms: counts[i] of them on atom i, taken in order
\* from literals
PrefixesOf(counts, literals) ==
    [i \in DOMAIN counts |->
        [j \in 1..counts[i] |-> literals[SumTo(counts, i - 1) + j]]]

\* how many prefix operators each of the n atoms of a chain has
PrefixCounts(n) == {c \in [1..n -> 0..MaxUnary] : SumTo(c, n) <= MaxUnary}
\* the binary operators of a chain: all of them between atoms that have no prefix
OperatorsFor(counts) ==
    IF SumTo(counts, Len(counts)) = 0 THEN BinaryLiterals ELSE PrefixedLiterals

\* the tokens of the chain from atom i on
RECURSIVE ChainTokens(_, _, _)
ChainTokens(chain, spaced, i) ==
    LET gap == IF spaced THEN <<WhitespaceToken>> ELSE <<>>
        prefixes == [j \in 1..(2 * Len(chain.pre[i])) |->
                        IF j % 2 = 0 THEN WhitespaceToken
                        ELSE OperatorToken(chain.pre[i][(j + 1) \div 2])]
        operand == (IF spaced THEN prefixes
                    ELSE SelectSeq(prefixes, LAMBDA t : t.type # "Whitespace"))
                   \o <<AtomToken(i)>>
    IN  IF i > Len(chain.ops) THEN gap \o operand \o gap
        ELSE gap \o operand \o gap \o <<OperatorToken(chain.ops[i])>>
                 \o ChainTokens(chain, spaced, i + 1)

InitParse ==
    /\ engines = {}
    /\ overloadings = EmptyMap
    /\ bindings = EmptyMap
    /\ instance = Undefined
    /\ declared = [c \in Classes |-> EmptyMap]
    /\ last = [op |-> "none"]
    /\ \E n \in 1..MaxOperands : \E counts \in PrefixCounts(n) :
          \E literals \in [1..SumTo(counts, n) -> UnaryLiterals],
             ops \in [1..(n - 1) -> OperatorsFor(counts)], spaced \in BOOLEAN :
             tokens = ChainTokens([pre |-> PrefixesOf(counts, literals), ops |-> ops], spaced, 1)
    /\ parsed = [status |-> "none"]
    /\ source = NoSource

\* new AstParser(tokens).parse()
Parse ==
    /\ parsed.status = "none"
    /\ parsed' = parse(tokens)
    /\ last' = [op |-> "parse"]
    /\ UNCHANGED <<engines, overloadings, bindings, instance, declared, tokens, source>>

NextParse == Parse

SpecParse == InitParse /\ [][NextParse]_vars

(***************************************************************************)
(* Claims about the grouping of operator chains (C9, C10).                 *)
(***************************************************************************)
\* the tokens given to the parser without the Whitespace tokens
Significant == SelectSeq(tokens, LAMBDA t : t.type # "Whitespace")
IsAtomToken(t) == t.type \in {"Embedded", "Constant", "Identifier"}
AtomNode(t) == IF t.type = "Identifier" THEN IdentifierNode(t.literal) ELSE ValueNode(t)
\* the operator at place i stands in prefix position
IsPrefixAt(T, i) == T[i].type = "Operator" /\ (i = 1 \/ T[i - 1].type = "Operator")
IsInfixAt(T, i) == T[i].type = "Operator" /\ i > 1 /\ IsAtomToken(T[i - 1])
\* atoms joined by binary operators, each atom under any number of prefix operators
IsOperatorChain(T) ==
    /\ Len(T) >= 1 /\ IsAtomToken(T[Len(T)])
    /\ \A i \in DOMAIN T :
          \/ IsAtomToken(T[i]) /\ (i = 1 \/ T[i - 1].type = "Operator")
          \/ IsPrefixAt(T, i) /\ T[i].literal \in {"!", "~", "-", "+"}
          \/ IsInfixAt(T, i) /\ T[i].literal \in BinaryLiterals

\* the precedence table as the operator table states it
TablePrecedence(literal) ==
    CASE literal = "**" -> 11
      [] literal \in {"*", "/", "%"} -> 10
      [] literal \in {"+", "-"} -> 9
      [] literal \in {"<<", ">>", ">>>"} -> 8
      [] literal \in {"<", ">", "<=", ">="} -> 7
      [] literal \in {"==", "===", "!=", "!=="} -> 6
      [] literal = "&" -> 5
      [] literal = "^" -> 4
      [] literal = "|" -> 3
      [] literal = "&&" -> 2
      [] literal = "||" -> 1

\* C9: the tokens A op1 B op2 C, for atoms A, B, C and binary operators op1, op2,
\* parse as Binary(Binary(A, op1, B), op2, C) when op1 binds tighter than op2 or as
\* tight and they are not both **, and as Binary(A, op1, Binary(B, op2, C)) when op2
\* binds tighter or both are **, by the precedences of the operator table.
C9_PrecedenceAndAssociativity ==
    LET T == Significant
        A == AtomNode(T[1])
        B == AtomNode(T[3])
        C == AtomNode(T[5])
        op1 == T[2].literal
        op2 == T[4].literal
    IN  (/\ parsed.status # "none"
         /\ Len(T) = 5 /\ IsOperatorChain(T)
         /\ IsAtomToken(T[1]) /\ IsAtomToken(T[3]) /\ IsAtomToken(T[5]))
        => /\ parsed.status = "return"
           /\ parsed.node =
                IF \/ TablePrecedence(op1) > TablePrecedence(op2)
                   \/ TablePrecedence(op1) = TablePrecedence(op2) /\ ~(op1 = "**" /\ op2 = "**")
                THEN BinaryNode(BinaryNode(A, op1, B), op2, C)
                ELSE BinaryNode(A, op1, BinaryNode(B, op2, C))

\* C9 witness: a ** 2 ** c was parsed into Binary(a, **, Binary(2, **, c))
C9_Witness ==
    /\ Len(tokens) = 5 /\ tokens[2].literal = "**" /\ tokens[4].literal = "**"
    /\ parsed.status = "return"
    /\ parsed.node = BinaryNode(AtomNode(tokens[1]), "**",
                                BinaryNode(AtomNode(tokens[3]), "**", AtomNode(tokens[5])))

\* An operator chain read by the stated rules instead of by the parser.  Its
\* items are operands (nodes already built), prefix operators and binary operators.
OperandItem(node) == [kind |-> "operand", node |-> node]
ItemsOf(T) ==
    [i \in DOMAIN T |->
        IF IsAtomToken(T[i]) THEN OperandItem(AtomNode(T[i]))
        ELSE IF IsPrefixAt(T, i) THEN [kind |-> "prefix", literal |-> T[i].literal]
        ELSE [kind |-> "binary", literal |-> T[i].literal]]
\* the operation a prefix operator stands for: - and + are -x and +x
PrefixOperation(literal) ==
    CASE literal = "-" -> "-x"
      [] literal = "+" -> "+x"
      [] OTHER -> literal

\* the tree of operand (binary operand)*: split at the operator that binds least,
\* the last such one, or the first when it is **
RECURSIVE GroupBinary(_)
GroupBinary(items) ==
    IF Len(items) = 1 THEN items[1].node
    ELSE LET opsAt == {i \in DOMAIN items : items[i].kind = "binary"}
             least == {i \in opsAt : \A j \in opsAt :
                          TablePrecedence(items[i].literal) <= TablePrecedence(items[j].literal)}
             first == CHOOSE i \in least : \A j \in least : i <= j
             final == CHOOSE i \in least : \A j \in least : j <= i
             at == IF items[first].literal = "**" THEN first ELSE final
         IN  BinaryNode(GroupBinary(SubSeq(items, 1, at - 1)), items[at].literal,
                        GroupBinary(SubSeq(items, at + 1, Len(items))))

\* the tree of a chain with prefix operators: the last prefix operator takes as its
\* operand the atom after it with the following binary operators of precedence 10
\* or more and their operands, and stands from then on as one operand
RECURSIVE GroupChain(_)
GroupChain(items) ==
    LET prefixesAt == {i \in DOMAIN items : items[i].kind = "prefix"}
    IN  IF prefixesAt = {} THEN GroupBinary(items)
        ELSE LET i == CHOOSE x \in prefixesAt : \A y \in prefixesAt : y <= x
                 weakAt == {x \in (i + 1)..Len(items) :
                               /\ items[x].kind = "binary"
                               /\ TablePrecedence(items[x].literal) <= 9}
                 j == IF weakAt = {} THEN Len(items)
                      ELSE (CHOOSE x \in weakAt : \A y \in weakAt : x <= y) - 1
                 operand == GroupBinary(SubSeq(items, i + 1, j))
             IN  GroupChain(SubSeq(items, 1, i - 1)
                            \o <<OperandItem(UnaryNode(PrefixOperation(items[i].literal), operand))>>
                            \o SubSeq(items, j + 1, Len(items)))

HasPrefix(T) == \E i \in DOMAIN T : IsPrefixAt(T, i)

\* C10: in a chain of atoms, binary operators and prefix operators, the operand of a
\* prefix operator is the expression after it up to, and not including, the first
\* binary operator of precedence 9 or lower: it takes in the following operators of
\* precedence 10 or higher with their operands; prefix operators in a row nest with
\* the first one outermost.
C10_UnaryOperandAtPrecedenceTen ==
    (parsed.status # "none" /\ IsOperatorChain(Significant) /\ HasPrefix(Significant))
    => /\ parsed.status = "return"
       /\ parsed.node = GroupChain(ItemsOf(Significant))

\* C10 witness: - ! x1 * 2 + v was parsed into
\* Binary(Unary(-x, Unary(!, Binary(x1, *, 2))), +, v)
C10_Witness ==
    /\ Len(tokens) = 7 /\ tokens[1].literal = "-" /\ tokens[2].literal = "!"
    /\ tokens[4].literal = "*" /\ tokens[6].literal = "+"
    /\ parsed.status = "return"
    /\ parsed.node =
          BinaryNode(UnaryNode("-x", UnaryNode("!",
                        BinaryNode(AtomNode(tokens[3]), "*", AtomNode(tokens[5])))),
                     "+", AtomNode(tokens[7]))

(***************************************************************************)
(* Subscript specification: the parser is given arr[ ... ] where the       *)
(* brackets hold any sequence of atoms, colons, commas and Whitespace      *)
(* tokens.                                                                 *)
(***************************************************************************)
SubscriptSymbols == {"E", ":", ",", " "}
\* the token of a symbol at place i between the brackets
SymbolToken(symbol, i) ==
    CASE symbol = "E" -> AtomToken(i)
      [] symbol = " " -> WhitespaceToken
      [] OTHER -> PunctuationToken(symbol)
SubscriptTokens(content) ==
    <<IdentifierToken("arr"), PunctuationToken("[")>>
    \o [i \in DOMAIN content |-> SymbolToken(content[i], i)]
    \o <<PunctuationToken("]")>>

InitSubscript ==
    /\ engines = {}
    /\ overloadings = EmptyMap
    /\ bindings = EmptyMap
    /\ instance = Undefined
    /\ declared = [c \in Classes |-> EmptyMap]
    /\ last = [op |-> "none"]
    /\ \E n \in 0..MaxSubscript : \E content \in [1..n -> SubscriptSymbols] :
          tokens = SubscriptTokens(content)
    /\ parsed = [status |-> "none"]
    /\ source = NoSource

NextSubscript == Parse

SpecSubscript == InitSubscript /\ [][NextSubscript]_vars

\* the tokens between the brackets, Whitespace left out
Bracket == SubSeq(Significant, 3, Len(Significant) - 1)
IsPunctuation(t, literal) == t.type = "Punctuation" /\ t.literal = literal
RECURSIVE Segments(_)
\* the pieces of a token sequence between its commas
Segments(seq) ==
    IF \E i \in DOMAIN seq : IsPunctuation(seq[i], ",")
    THEN LET i == CHOOSE j \in DOMAIN seq :
                     /\ IsPunctuation(seq[j], ",")
                     /\ \A h \in 1..(j - 1) : ~IsPunctuation(seq[h], ",")
         IN  <<SubSeq(seq, 1, i - 1)>> \o Segments(SubSeq(seq, i + 1, Len(seq)))
    ELSE <<seq>>
\* a dimension is a piece that holds an expression or a colon
Dimensions == SelectSeq(Segments(Bracket), LAMBDA seg : Len(seg) > 0)
HasColon(seq) == \E i \in DOMAIN seq : IsPunctuation(seq[i], ":")
ColonsBefore(seg, i) == Cardinality({h \in 1..(i - 1) : IsPunctuation(seg[h], ":")})
\* no expression directly follows another one
OneExpressionPerPlace ==
    \A i \in 1..(Len(Bracket) - 1) : ~(IsAtomToken(Bracket[i]) /\ IsAtomToken(Bracket[i + 1]))

\* C11: for every accepted subscript the node is a Slicing node exactly when
\* some dimension contains a colon or the bracket holds more than one
\* dimension, and a bracket of exactly one dimension made of one colon-free
\* expression yields the Indexing node of that expression.
C11_SlicingIffColonOrSeveralDimensions ==
    parsed.status = "return" =>
        /\ parsed.node.type = "Slicing" <=> (HasColon(Bracket) \/ Len(Dimensions) > 1)
        /\ (Len(Dimensions) = 1 /\ Len(Dimensions[1]) = 1 /\ IsAtomToken(Dimensions[1][1])) =>
              parsed.node = IndexingNode(IdentifierNode("arr"), AtomNode(Dimensions[1][1]))

\* the expression of a dimension that k colons precede, undefined when there is none
ExpressionAfter(seg, k) ==
    IF \E i \in DOMAIN seg : IsAtomToken(seg[i]) /\ ColonsBefore(seg, i) = k
    THEN AtomNode(seg[CHOOSE i \in DOMAIN seg : IsAtomToken(seg[i]) /\ ColonsBefore(seg, i) = k])
    ELSE Undefined
ExpectedSlices ==
    [d \in DOMAIN Dimensions |->
        [start |-> ExpressionAfter(Dimensions[d], 0),
         end |-> ExpressionAfter(Dimensions[d], 1),
         step |-> ExpressionAfter(Dimensions[d], 2)]]
AllUndefined == [start |-> Undefined, end |-> Undefined, step |-> Undefined]

TokenSymbols == {"x", "1", "-", ".", "(", ")", "[", "]", ",", ":"}
\* the token of a symbol at place i of the list
ListToken(symbol, i) ==
    CASE symbol = "x" -> IdentifierToken("x" \o ToString(i))
      [] symbol = "1" -> ConstantToken(ToString(i))
      [] symbol = "-" -> OperatorToken("-")
      [] OTHER -> PunctuationToken(symbol)
ListTokens(symbols) == [i \in DOMAIN symbols |-> ListToken(symbols[i], i)]

InitTokens ==
    /\ engines = {}
    /\ overloadings = EmptyMap
    /\ bindings = EmptyMap
    /\ instance = Undefined
    /\ declared = [c \in Classes |-> EmptyMap]
    /\ last = [op |-> "none"]
    /\ \E n \in 0..MaxTokens : \E symbols \in [1..n -> TokenSymbols] :
          tokens = ListTokens(symbols)
    /\ parsed = [status |-> "none"]
    /\ source = NoSource

NextTokens == Parse

SpecTokens == InitTokens /\ [][NextTokens]_vars

Count(literal) == Cardinality({i \in DOMAIN tokens : IsPunctuation(tokens[i], literal)})
\* a token no operand can start with
EndsOperand(t) == t.type = "Punctuation" /\ t.literal \in {")", "]", ",", ":", "."}
DotWithoutIdentifier ==
    \E i \in DOMAIN tokens :
        /\ IsPunctuation(tokens[i], ".")
        /\ (i = Len(tokens) \/ tokens[i + 1].type # "Identifier")
Unclosed == Count("(") > Count(")") \/ Count("[") > Count("]")
EmptySubscript ==
    \E i \in 1..(Len(tokens) - 1) : IsPunctuation(tokens[i], "[") /\ IsPunctuation(tokens[i + 1], "]")
OperandMissing ==
    \E i \in DOMAIN tokens :
        /\ tokens[i].type = "Operator"
        /\ (i = Len(tokens) \/ EndsOperand(tokens[i + 1]))
\* the top-level expression ends before the end of the list
LeftOver ==
    LET result == parseExpression(tokens, 0, 0)
    IN  tokens # <<>> /\ result.status = "return" /\ result.position < Len(tokens)

\* C13: parse() returns a node only when the expression consumed the whole
\* token list; it throws, with no node, on an empty list, on tokens left
\* over, on a . without an identifier after it, on an unclosed ( or [, on an
\* empty subscript [] and on an operator whose operand is missing.
C13_ParseConsumesEverythingOrFails ==
    parsed.status # "none" =>
        /\ parsed.status \in {"return", "throw"}
        /\ parsed.status = "return" =>
              /\ parsed.node # Null
              /\ parsed.position = Len(tokens)
              /\ parseExpression(tokens, 0, 0) = parsed
        /\ parsed.status = "throw" => parsed.node = Null
        /\ (\/ tokens = <<>>
            \/ LeftOver
            \/ DotWithoutIdentifier
            \/ Unclosed
            \/ EmptySubscript
            \/ OperandMissing) => parsed.status = "throw"
C13_Witness ==
    /\ LeftOver
    /\ ~(DotWithoutIdentifier \/ Unclosed \/ EmptySubscript \/ OperandMissing)
    /\ parsed.status = "throw"

\* C20: a token list with Whitespace tokens between its tokens is parsed as
\* the list without them is: to the same tree when that one is accepted, and
\* to a failure when that one fails.
C20_WhitespaceTokensChangeNothing ==
    parsed.status # "none" =>
        LET plain == parse(Significant)
        IN  /\ plain.status = "return" =>
                  parsed.status = "return" /\ parsed.node = plain.node
            /\ plain.status = "throw" => parsed.status = "throw"

(***************************************************************************)
(* Slice specification: arr is bound to an array on two engines, engine 1  *)
(* after overloadDefaults() and engine 2 without overloads, and            *)
(* rop.o`arr[${start}:${end}:${step}]` is tokenized, parsed and evaluated, *)
(* with any of the three left out, with fewer colons, and with a comma or  *)
(* a second dimension behind the first.                                    *)
(***************************************************************************)
SliceEngines == {1, 2}
ArrayOfLength(length) == ArrayValue([i \in 1..length |-> [k |-> "object", cls |-> "Base", n |-> i - 1]])
SliceValues == {Undefined} \cup {NumberValue(n) : n \in (-MaxIndex)..MaxIndex}
\* the token of an embedded bound, none when the bound is left out
ValueTokens(value) == IF value = Undefined THEN <<>> ELSE <<EmbeddedToken(value)>>
SliceTails == {<<>>, <<PunctuationToken(",")>>, <<PunctuationToken(","), EmbeddedToken(NumberValue(0))>>}
SliceTokens(start, end, step, colons, tail) ==
    <<IdentifierToken("arr"), PunctuationToken("[")>>
    \o ValueTokens(start)
    \o (IF colons >= 1 THEN <<PunctuationToken(":")>> \o ValueTokens(end) ELSE <<>>)
    \o (IF colons >= 2 THEN <<PunctuationToken(":")>> \o ValueTokens(step) ELSE <<>>)
    \o tail
    \o <<PunctuationToken("]")>>

InitSlice ==
    /\ engines = SliceEngines
    /\ overloadings = [e \in SliceEngines |-> IF e = 1 THEN overloadDefaults(EmptyMap) ELSE EmptyMap]
    /\ \E length \in 0..MaxLength :
          bindings = [e \in SliceEngines |-> MapSet(EmptyMap, "arr", ArrayOfLength(length))]
    /\ instance = Undefined
    /\ declared = [c \in Classes |-> EmptyMap]
    /\ last = [op |-> "none"]
    /\ \E start \in SliceValues, end \in SliceValues, step \in SliceValues :
          \E colons \in 0..2, tail \in SliceTails :
             /\ end # Undefined => colons >= 1
             /\ step # Undefined => colons = 2
             /\ tokens = SliceTokens(start, end, step, colons, tail)
    /\ parsed = [status |-> "none"]
    /\ source = NoSource

NextSlice ==
    \/ Parse
    \/ \E e \in SliceEngines : parsed.status = "return" /\ last.op = "parse" /\ Evaluate(e, parsed.node)

SpecSlice == InitSlice /\ [][NextSlice]_vars

\* the array arr is bound to
BoundArray == bindings[1]["arr"]
\* the bound a slice node holds in one place: a number, or undefined
BoundOf(node) == IF node = Undefined THEN Undefined ELSE node.token.value
\* a slice of one dimension was evaluated on the engine
SliceEvaluated(e) ==
    /\ last.op = "evaluate" /\ last.engine = e
    /\ last.node.type = "Slicing" /\ Len(last.node.slices) = 1
GivenStart == BoundOf(last.node.slices[1].start)
GivenEnd == BoundOf(last.node.slices[1].end)
GivenStep == BoundOf(last.node.slices[1].step)
Wrapped(bound, length) == IF bound.n < 0 THEN bound.n + length ELSE bound.n
\* more steps than any slice of the model takes
MaxSteps == 2 * (MaxIndex + MaxLength) + 1
\* the elements at start, start + step, ... as long as the condition holds
Enumerated(items, start, step, Holds(_)) ==
    LET count == Cardinality({j \in 0..MaxSteps : \A h \in 0..j : Holds(start + h * step)})
    IN  [j \in 1..count |-> ArrayElement(items, start + (j - 1) * step)]
\* the slice as the documentation of the default overload words it
DocumentedSlice ==
    LET items == BoundArray.items
        length == Len(items)
        step == IF GivenStep = Undefined THEN 1 ELSE GivenStep.n
        start == IF GivenStart # Undefined THEN Wrapped(GivenStart, length)
                 ELSE IF step > 0 THEN 0 ELSE length - 1
        end == IF GivenEnd # Undefined THEN Wrapped(GivenEnd, length)
               ELSE IF step > 0 THEN length ELSE -1
    IN  IF step > 0 THEN Enumerated(items, start, step, LAMBDA i : i < end)
        ELSE Enumerated(items, start, step, LAMBDA i : i > end)

\* C14: with the default overloads a one-dimension slice of an array fails
\* when step is 0; otherwise it returns the elements at start, start + step,
\* ... while i < end (step > 0: start defaults to 0, end to the length) or
\* while i > end (step < 0: start defaults to length - 1, an omitted end is
\* -1, not wrapped), a negative start or end being replaced by itself + length.
C14_DefaultSliceEnumeration ==
    SliceEvaluated(1) =>
        IF GivenStep = NumberValue(0) THEN last.status = "throw"
        ELSE last.status = "return" /\ last.value = ArrayValue(DocumentedSlice)
C14_Witness ==
    /\ SliceEvaluated(1)
    /\ GivenStep # Undefined /\ GivenStep.n < -1
    /\ GivenStart # Undefined /\ GivenStart.n < 0
    /\ GivenEnd = Undefined
    /\ last.status = "return" /\ Len(last.value.items) = 2

\* a given bound as Python adjusts it: wrapped once when negative, then
\* brought into lower .. upper
Adjusted(bound, length, lower, upper) ==
    LET wrapped == Wrapped(bound, length)
    IN  IF wrapped < lower THEN lower ELSE IF wrapped > upper THEN upper ELSE wrapped
\* what Python's a[start:end:step] returns
PythonSlice ==
    LET items == BoundArray.items
        length == Len(items)
        step == IF GivenStep = Undefined THEN 1 ELSE GivenStep.n
        lower == IF step > 0 THEN 0 ELSE -1
        upper == IF step > 0 THEN length ELSE length - 1
        start == IF GivenStart # Undefined THEN Adjusted(GivenStart, length, lower, upper)
                 ELSE IF step > 0 THEN lower ELSE upper
        end == IF GivenEnd # Undefined THEN Adjusted(GivenEnd, length, lower, upper)
               ELSE IF step > 0 THEN upper ELSE lower
    IN  IF step > 0 THEN Enumerated(items, start, step, LAMBDA i : i < end)
        ELSE Enumerated(items, start, step, LAMBDA i : i > end)

\* C15: for every array and all integer start, end and non-zero step, bounds
\* beyond the array included, the default slice returns what Python's
\* a[start:end:step] returns; every element of the result is an element of
\* the array and the result is no longer than the array.
C15_PythonSlice ==
    (SliceEvaluated(1) /\ GivenStep # NumberValue(0)) =>
        /\ last.status = "return"
        /\ last.value = ArrayValue(PythonSlice)
        /\ \A j \in DOMAIN last.value.items : last.value.items[j] \in Range(BoundArray.items)
        /\ Len(last.value.items) <= Len(BoundArray.items)

\* C16: on a target without a [:] overload a Slicing node is evaluated to
\* target[start] when it has exactly one dimension with a start and neither
\* end nor step, and fails with a 'does not support slicing' error otherwise.
C16_SlicingWithoutOverload ==
    (last.op = "evaluate" /\ last.engine = 2 /\ last.node.type = "Slicing") =>
        IF /\ Len(last.node.slices) = 1
           /\ last.node.slices[1].start # Undefined
           /\ last.node.slices[1].end = Undefined
           /\ last.node.slices[1].step = Undefined
        THEN /\ last.status = "return"
             /\ last.value = GetMember(BoundArray, GivenStart).value
        ELSE /\ last.status = "throw"
             /\ last.error \in {"Target does not support slicing",
                                "Target does not support slicing with end or step"}

(***************************************************************************)
(* Order specification: an engine binds functions that leave a trace when  *)
(* called, and expressions that call them as operands of - and as          *)
(* arguments of an invocation are tokenized, parsed and evaluated.         *)
(*   a() b()  return a Base object and a string;  v is a Derived object;   *)
(*   n is bound to a value that is no function;  u is not bound;           *)
(*   f is a function;  h() returns a function;  Base overloads -.          *)
(***************************************************************************)
OrderBindings ==
    [a |-> Thunk("a", Instance("Base")),
     b |-> Thunk("b", Primitive("String")),
     v |-> Instance("Derived"),
     n |-> NotCallable,
     f |-> Fn("f", "arrow"),
     h |-> Thunk("h", Fn("h()", "arrow"))]
OrderOverloads ==
    setOverload(EmptyMap, Prototype("Base"), Operations_symbol(Str("-")), Fn("-", "method")).table
OperandNames == {"a", "b", "n", "u", "v"}
CallTokens(name) == <<IdentifierToken(name), PunctuationToken("("), PunctuationToken(")")>>
\* a(), b() and n() are calls; u and v are plain identifiers
OperandTokens(name) == IF name \in {"u", "v"} THEN <<IdentifierToken(name)>> ELSE CallTokens(name)
\* the operands from place i on, with the separator between them
RECURSIVE Joined(_, _, _)
Joined(names, i, separator) ==
    IF i > Len(names) THEN <<>>
    ELSE OperandTokens(names[i])
         \o (IF i < Len(names) THEN <<separator>> ELSE <<>>)
         \o Joined(names, i + 1, separator)
Callees == {"f", "n", "u", "h()"}
CalleeTokens(callee) == IF callee = "h()" THEN CallTokens("h") ELSE <<IdentifierToken(callee)>>
\* callee(X1, ..., Xk)
InvokeTokens(callee, names) ==
    CalleeTokens(callee) \o <<PunctuationToken("(")>>
    \o Joined(names, 1, PunctuationToken(",")) \o <<PunctuationToken(")")>>
\* X1 - ... - Xk
ChainOf(names) == Joined(names, 1, OperatorToken("-"))
\* f(X1 - X2, X3, ..., Xk)
MixedTokens(names) ==
    <<IdentifierToken("f"), PunctuationToken("(")>>
    \o ChainOf(SubSeq(names, 1, 2))
    \o (IF Len(names) > 2 THEN <<PunctuationToken(",")>> ELSE <<>>)
    \o Joined(SubSeq(names, 3, Len(names)), 1, PunctuationToken(","))
    \o <<PunctuationToken(")")>>

InitOrder ==
    /\ engines = {1}
    /\ overloadings = [e \in {1} |-> OrderOverloads]
    /\ bindings = [e \in {1} |-> OrderBindings]
    /\ instance = Undefined
    /\ declared = [c \in Classes |-> EmptyMap]
    /\ last = [op |-> "none"]
    /\ \E k \in 0..MaxArgs : \E names \in [1..k -> OperandNames] :
          \/ \E callee \in Callees : tokens = InvokeTokens(callee, names)
          \/ k >= 1 /\ tokens = ChainOf(names)
          \/ k >= 2 /\ tokens = MixedTokens(names)
    /\ parsed = [status |-> "none"]
    /\ source = NoSource

NextOrder ==
    \/ Parse
    \/ parsed.status = "return" /\ last.op = "parse" /\ Evaluate(1, parsed.node)

SpecOrder == InitOrder /\ [][NextOrder]_vars

\* the name under which the call of an invocation's callee shows in the trace
CalleeName(target) ==
    IF target.type = "Identifier" THEN target.name ELSE target.target.name \o "()"
RECURSIVE Visits(_)
RECURSIVE VisitsAll(_, _)
\* the calls of an expression in the order the claim gives: left operand,
\* right operand, operator; callee, arguments in source order, call
Visits(node) ==
    CASE node.type = "Binary" -> Visits(node.left) \o Visits(node.right) \o <<node.operation>>
      [] node.type = "Invoke" ->
            Visits(node.target) \o VisitsAll(node.args, 1) \o <<CalleeName(node.target)>>
      [] OTHER -> <<>>
VisitsAll(args, i) ==
    IF i > Len(args) THEN <<>> ELSE Visits(args[i]) \o VisitsAll(args, i + 1)
\* the names of the functions called, in the order of their calls
TraceNames == [i \in DOMAIN last.calls |-> last.calls[i].fn.name]
IsPrefix(s, t) == Len(s) <= Len(t) /\ SubSeq(t, 1, Len(s)) = s

\* C17: the calls an evaluation makes happen in source order: those of the
\* left operand of a Binary node before those of its right operand, those of
\* the callee of an Invoke node first, then those of its arguments in order,
\* each once, and the call of the callee after all of them; an evaluation
\* that throws has made the calls up to the failure, in that order.
C17_LeftToRightEvaluation ==
    last.op = "evaluate" =>
        /\ IsPrefix(TraceNames, Visits(last.node))
        /\ last.status = "return" => TraceNames = Visits(last.node)
C17_Witness ==
    /\ last.op = "evaluate" /\ last.status = "return"
    /\ last.node.type = "Invoke" /\ Len(last.node.args) = 2
    /\ last.node.args[1].type = "Binary"
    /\ TraceNames = <<"a", "b", "-", "a", "f">>

(***************************************************************************)
(* Tokenizer.  A text is a sequence of characters, each a string of        *)
(* length one; place i of the sequence is position i - 1 of the string.    *)
(***************************************************************************)
\* the characters of code points 32 .. 126; the grave accent, which a string of
\* this language cannot hold, is named by its code point
Ascii ==
    <<" ", "!", "\"", "#", "$", "%", "&", "'", "(", ")", "*", "+", ",", "-", ".", "/",
      "0", "1", "2", "3", "4", "5", "6", "7", "8", "9", ":", ";", "<", "=", ">", "?",
      "@", "A", "B", "C", "D", "E", "F", "G", "H", "I", "J", "K", "L", "M", "N", "O",
      "P", "Q", "R", "S", "T", "U", "V", "W", "X", "Y", "Z", "[", "\\", "]", "^", "_",
      "U+96", "a", "b", "c", "d", "e", "f", "g", "h", "i", "j", "k", "l", "m", "n", "o",
      "p", "q", "r", "s", "t", "u", "v", "w", "x", "y", "z", "{", "|", "}", "~">>
DigitChars == {Ascii[i] : i \in 17..26}
LetterChars == {Ascii[i] : i \in (34..59) \cup (66..91)}
HexChars == DigitChars \cup {Ascii[i] : i \in (34..39) \cup (66..71)}
\* \s
WhitespaceChars == {" ", "\t", "\n", "\r", "\f"}
\* [$_\p{ID_Start}] and [$_\p{ID_Continue}], for the characters of Ascii
IdStartChars == LetterChars \cup {"$", "_"}
IdContinueChars == IdStartChars \cup DigitChars
PunctuationChars == {"(", ")", "[", "]", "{", "}", ",", ":", "."}
\* the alternatives of the operator pattern, in its order
OperatorLiterals ==
    <<"<=", ">=", "===", "!==", "==", "!=", "**", ">>>", ">>", "<<", "&&", "||",
      "+", "-", "*", "/", "%", "&", "|", "^", "<", ">", "!", "~">>

At(str, i) == IF i \in DOMAIN str THEN str[i] ELSE ""
RECURSIVE Text(_)
\* the string of a sequence of characters
Text(chars) == IF chars = <<>> THEN "" ELSE chars[1] \o Text(Tail(chars))
\* the place behind the longest run of the given characters that starts at place i
RunEnd(str, i, chars) ==
    CHOOSE e \in i..(Len(str) + 1) :
        /\ \A j \in i..(e - 1) : str[j] \in chars
        /\ At(str, e) \notin chars
\* the text literal stands at place i
StandsAt(str, i, literal) ==
    \E n \in 1..3 : i + n - 1 <= Len(str) /\ Text(SubSeq(str, i, i + n - 1)) = literal

RECURSIVE HexValue(_)
\* parseInt(hex, 16)
HexValue(hex) ==
    IF hex = <<>> THEN 0
    ELSE LET ch == hex[Len(hex)]
             digit == IF ch \in DigitChars THEN (CHOOSE i \in 17..26 : Ascii[i] = ch) - 17
                      ELSE IF ch \in LetterChars /\ \E i \in 34..39 : Ascii[i] = ch
                      THEN (CHOOSE i \in 34..39 : Ascii[i] = ch) - 24
                      ELSE (CHOOSE i \in 66..71 : Ascii[i] = ch) - 56
         IN  16 * HexValue(SubSeq(hex, 1, Len(hex) - 1)) + digit
\* String.fromCodePoint(n), for n up to 0x10FFFF: a character outside Ascii is
\* named by its code point
fromCodePoint(n) == IF n \in 32..126 THEN Ascii[n - 31] ELSE "U+" \o ToString(n)

RECURSIVE replaceEscapes(_, _, _)
\* str.replace(/\\u([0-9A-Fa-f]{4,})/g, ...) and, with braces, the same for
\* \u{...}, from place i on: the text, and whether every code point is one
\* String.fromCodePoint takes
replaceEscapes(str, i, braces) ==
    LET first == IF braces THEN i + 3 ELSE i + 2
        end == RunEnd(str, first, HexChars)
        matches == /\ str[i] = "\\" /\ At(str, i + 1) = "u"
                   /\ braces => At(str, i + 2) = "{"
                   /\ first <= Len(str) + 1 /\ end - first >= 4
                   /\ braces => At(str, end) = "}"
        point == HexValue(SubSeq(str, first, end - 1))
        rest == replaceEscapes(str, IF matches THEN (IF braces THEN end + 1 ELSE end) ELSE i + 1,
                               braces)
    IN  IF i > Len(str) THEN [chars |-> <<>>, ok |-> TRUE]
        ELSE IF matches /\ point > 1114111 THEN [chars |-> <<>>, ok |-> FALSE]
        ELSE IF matches THEN [chars |-> <<fromCodePoint(point)>> \o rest.chars, ok |-> rest.ok]
        ELSE [chars |-> <<str[i]>> \o rest.chars, ok |-> rest.ok]
\* Tokenizer.parseUnicodeEscapes
parseUnicodeEscapes(str) ==
    LET plain == replaceEscapes(str, 1, FALSE)
        braced == replaceEscapes(plain.chars, 1, TRUE)
    IN  IF plain.ok THEN braced ELSE plain

\* TokenFactory.constant
constant(literal, value) == [type |-> "Constant", literal |-> literal, value |-> value]
\* TokenFactory.interpolation: the Embedded token of a value
interpolation(value) == EmbeddedToken(value)

\* the place behind the match of /^[0-9]*\.?[0-9]+([eE][+-]?[0-9]+)?[n]?/ at
\* place i, or i when there is none
numberEnd(str, i) ==
    LET digits == RunEnd(str, i, DigitChars)
        fraction == IF At(str, digits) = "." THEN RunEnd(str, digits + 1, DigitChars) ELSE digits
        mantissa == IF fraction > digits + 1 THEN fraction ELSE digits
        sign == IF At(str, mantissa + 1) \in {"+", "-"} THEN mantissa + 2 ELSE mantissa + 1
        power == IF At(str, mantissa) \in {"e", "E"} THEN RunEnd(str, sign, DigitChars) ELSE sign
        exponent == IF At(str, mantissa) \in {"e", "E"} /\ power > sign THEN power ELSE mantissa
    IN  IF mantissa = i THEN i
        ELSE IF At(str, exponent) = "n" THEN exponent + 1
        ELSE exponent

RECURSIVE DecimalValue(_)
\* the integer a run of digits denotes
DecimalValue(digits) ==
    IF digits = <<>> THEN 0
    ELSE 10 * DecimalValue(SubSeq(digits, 1, Len(digits) - 1))
         + (CHOOSE i \in 17..26 : Ascii[i] = digits[Len(digits)]) - 17
\* the value of a number literal: BigInt(...) of all but the final n, a
\* SyntaxError unless that is an integer; parseFloat; parseInt
numberValue(literal) ==
    LET body == SubSeq(literal, 1, Len(literal) - 1)
    IN  IF literal[Len(literal)] = "n"
        THEN IF \A j \in DOMAIN body : body[j] \in DigitChars
             THEN [k |-> "primitive", cls |-> "BigInt", n |-> DecimalValue(body)]
             ELSE Thrown("SyntaxError")
        ELSE IF \E j \in DOMAIN literal : literal[j] \in {".", "e", "E"}
        THEN [k |-> "primitive", cls |-> "Number", float |-> Text(literal)]
        ELSE NumberValue(DecimalValue(literal))

RECURSIVE stringEnd(_, _, _)
\* the place behind the closing quote of /^'([^'\\]|\\.)*'/ when the place
\* behind the opening quote is i, or 0 when there is no match
stringEnd(str, i, quote) ==
    IF i > Len(str) THEN 0
    ELSE IF str[i] = quote THEN i + 1
    ELSE IF str[i] = "\\"
         THEN IF i + 1 <= Len(str) /\ str[i + 1] \notin {"\n", "\r"}
              THEN stringEnd(str, i + 2, quote) ELSE 0
    ELSE stringEnd(str, i + 1, quote)
RECURSIVE unescape(_, _)
\* chars.replace(/\\<ch>/g, ch)
unescape(chars, ch) ==
    IF chars = <<>> THEN <<>>
    ELSE IF chars[1] = "\\" /\ At(chars, 2) = ch THEN <<ch>> \o unescape(SubSeq(chars, 3, Len(chars)), ch)
    ELSE <<chars[1]>> \o unescape(Tail(chars), ch)
\* the value of a string literal
stringValue(literal, quote) ==
    [k |-> "primitive", cls |-> "String",
     text |-> Text(unescape(unescape(SubSeq(literal, 2, Len(literal) - 1), quote), "\\"))]

Tokens(tokenList) == [status |-> "return", tokens |-> tokenList, error |-> "", position |-> 0]
TokenizeThrows(error, tokenList, position) ==
    [status |-> "throw", tokens |-> tokenList, error |-> error, position |-> position]

RECURSIVE tokenizeLoop(_, _, _, _)
\* the loop of Tokenizer.tokenize (private) from place i on
tokenizeLoop(str, i, tokenList, ignoreWhitespace) ==
    LET ch == str[i]
        blank == RunEnd(str, i, WhitespaceChars)
        operators == {n \in DOMAIN OperatorLiterals : StandsAt(str, i, OperatorLiterals[n])}
        operator == OperatorLiterals[CHOOSE n \in operators : \A m \in operators : n <= m]
        number == numberEnd(str, i)
        numberLiteral == SubSeq(str, i, number - 1)
        string == IF ch \in {"'", "\""} THEN stringEnd(str, i + 1, ch) ELSE 0
        stringLiteral == SubSeq(str, i, string - 1)
        identifier == RunEnd(str, i + 1, IdContinueChars)
    IN  IF i > Len(str) THEN Tokens(tokenList)
        ELSE IF blank > i
        THEN tokenizeLoop(str, blank,
                 IF ignoreWhitespace THEN tokenList
                 ELSE Append(tokenList, [type |-> "Whitespace", literal |-> Text(SubSeq(str, i, blank - 1))]),
                 ignoreWhitespace)
        ELSE IF ch \in PunctuationChars
        THEN tokenizeLoop(str, i + 1, Append(tokenList, PunctuationToken(ch)), ignoreWhitespace)
        ELSE IF operators # {}
        THEN tokenizeLoop(str, i + Len(operator), Append(tokenList, OperatorToken(operator)),
                          ignoreWhitespace)
        ELSE IF number > i
        THEN IF IsThrown(numberValue(numberLiteral))
             THEN TokenizeThrows(numberValue(numberLiteral).error, tokenList, i - 1)
             ELSE tokenizeLoop(str, number,
                      Append(tokenList, constant(Text(numberLiteral), numberValue(numberLiteral))),
                      ignoreWhitespace)
        ELSE IF string > 0
        THEN tokenizeLoop(str, string,
                 Append(tokenList, constant(Text(stringLiteral), stringValue(stringLiteral, ch))),
                 ignoreWhitespace)
        ELSE IF ch \in IdStartChars
        THEN tokenizeLoop(str, identifier,
                 Append(tokenList, IdentifierToken(Text(SubSeq(str, i, identifier - 1)))),
                 ignoreWhitespace)
        ELSE TokenizeThrows("TokenizingError", tokenList, i - 1)

\* new Tokenizer(str).tokenize(): ignoreWhitespace has its default, true
tokenizeString(str) ==
    LET escaped == parseUnicodeEscapes(str)
    IN  IF ~escaped.ok THEN TokenizeThrows("RangeError", <<>>, 0)
        ELSE tokenizeLoop(escaped.chars, 1, <<>>, TRUE)

RECURSIVE tokenizeFragments(_, _, _, _)
\* tokens.push(...) of the tokens of fragment i, which are given, and of the
\* value behind it, and the rest of the loop
pushFragment(fragment, raw, args, i, tokenList) ==
    IF fragment.status = "throw" THEN fragment
    ELSE IF i > Len(args) THEN Tokens(tokenList \o fragment.tokens)
    ELSE tokenizeFragments(raw, args, i + 1,
             (tokenList \o fragment.tokens) \o <<interpolation(args[i])>>)
\* the loop of Tokenizer.tokenize (static) over the embedded values, from value
\* i on, and the tokens of s.raw.at(-1) behind it
tokenizeFragments(raw, args, i, tokenList) ==
    pushFragment(tokenizeString(raw[IF i > Len(args) THEN Len(raw) ELSE i]), raw, args, i, tokenList)

\* mutant: the embedded values are put before the tokens of the last fragment
tokenize_ValuesFirst(s, args) ==
    LET final == tokenizeFragments(s.raw, <<>>, 1, <<>>)
    IN  IF s.form = "string" THEN tokenizeString(s.text)
        ELSE IF final.status = "throw" THEN final
        ELSE Tokens([i \in DOMAIN args |-> interpolation(args[i])] \o final.tokens)

\* Tokenizer.tokenize (static)
tokenize(s, args) ==
    IF s.form = "string" THEN tokenizeString(s.text)
    ELSE tokenizeFragments(s.raw, args, 1, <<>>)

(***************************************************************************)
(* Tokenizer specification: Tokenizer.tokenize is given a string, or the   *)
(* fragments and the embedded values of a template literal.                *)
(***************************************************************************)
SourceChars == {"1", ".", "e", "n", "+", " ", "#", "'"}
\* the value embedded at place i: an object of its own, or undefined
EmbeddedValueAt(i) == IF i % 2 = 1 THEN [k |-> "object", cls |-> "Base", n |-> i] ELSE Undefined
\* the texts a fragment of a template literal can be: nothing, blanks, one or
\* several tokens, and a text the tokenizer fails on
Fragments ==
    {<<>>, <<" ">>, <<"x">>, <<"+">>, <<"x", " ">>, <<" ", "*", "*", " ">>, <<"1", "n", "(">>, <<"#">>}
StringSource(text) == [form |-> "string", text |-> text]
TemplateSource(raw, args) == [form |-> "template", raw |-> raw, args |-> args]

InitTokenize ==
    /\ engines = {}
    /\ overloadings = EmptyMap
    /\ bindings = EmptyMap
    /\ instance = Undefined
    /\ declared = [c \in Classes |-> EmptyMap]
    /\ last = [op |-> "none"]
    /\ tokens = <<>>
    /\ parsed = [status |-> "none"]
    /\ \/ \E n \in 0..MaxChars : \E text \in [1..n -> SourceChars] : source = StringSource(text)
       \/ \E count \in 0..MaxValues : \E raw \in [1..(count + 1) -> Fragments] :
             source = TemplateSource(raw, [i \in 1..count |-> EmbeddedValueAt(i)])

\* Tokenizer.tokenize(s) or Tokenizer.tokenize(strs, ...args)
Tokenize ==
    /\ source.form # "none" /\ last.op = "none"
    /\ last' = [op |-> "tokenize"]
                @@ tokenize(source, IF source.form = "template" THEN source.args ELSE <<>>)
    /\ tokens' = IF last'.status = "return" THEN last'.tokens ELSE tokens
    /\ UNCHANGED <<engines, overloadings, bindings, instance, declared, parsed, source>>

NextTokenize == Tokenize

SpecTokenize == InitTokenize /\ [][NextTokenize]_vars

\* what the tokenizer makes of each fragment given alone as a string
FragmentTokens == [i \in DOMAIN source.raw |-> tokenize(StringSource(source.raw[i]), <<>>)]
RECURSIVE Interleaved(_, _, _)
\* tokens(f0), Embedded(v0), tokens(f1), ... from fragment i on
Interleaved(parts, args, i) ==
    IF i > Len(args) THEN parts[i].tokens
    ELSE (parts[i].tokens \o <<[type |-> "Embedded", literal |-> "${}", value |-> args[i]]>>)
         \o Interleaved(parts, args, i + 1)
EmbeddedTokens == SelectSeq(tokens, LAMBDA t : t.type = "Embedded")

\* C18: tokenizing fragments f0 .. fn with embedded values v0 .. vn-1 gives
\* tokens(f0), Embedded(v0), tokens(f1), ..., tokens(fn): one Embedded
\* token per value, in order, each holding that very value; no Whitespace
\* token is in the output; and tokenizing a string gives what tokenizing it
\* as the only fragment of a template literal without values gives.
C18_FragmentsAndEmbeddedValues ==
    last.op = "tokenize" =>
        /\ source.form = "template" =>
              IF \E i \in DOMAIN source.raw : FragmentTokens[i].status = "throw"
              THEN last.status = "throw"
              ELSE /\ last.status = "return"
                   /\ tokens = Interleaved(FragmentTokens, source.args, 1)
                   /\ [i \in DOMAIN EmbeddedTokens |-> EmbeddedTokens[i].value] = source.args
        /\ \A i \in DOMAIN tokens : tokens[i].type # "Whitespace"
        /\ source.form = "string" =>
              /\ tokenize(source, <<>>) = tokenize(TemplateSource(<<source.text>>, <<>>), <<>>)
              /\ last.status = "return" => tokens = tokenize(source, <<>>).tokens
C18_Witness ==
    /\ last.op = "tokenize" /\ last.status = "return"
    /\ source.form = "template" /\ Len(source.args) = 2
    /\ Len(tokens) = 5
    /\ tokens[1].type = "Identifier" /\ tokens[2].type = "Embedded"
    /\ tokens[3].type = "Operator" /\ tokens[4].type = "Embedded"
    /\ \E i \in DOMAIN source.raw : \E j \in DOMAIN source.raw[i] : source.raw[i][j] = " "

\* C19: tokenizing a text returns a token list or fails with a
\* TokenizingError raised at a position of the text; it fails with no other
\* kind of error, number literals with a fraction or an exponent and the
\* suffix n included.
C19_OnlyTokenizingErrors ==
    (last.op = "tokenize" /\ source.form = "string") =>
        \/ last.status = "return"
        \/ /\ last.status = "throw"
           /\ last.error = "TokenizingError"
           /\ last.position \in 0..(Len(source.text) - 1)

(***************************************************************************)
(* Claim about a prefix operator inside a right operand (C24).             *)
(***************************************************************************)
\* the operand B of A op1 B op2 C: an atom, or an atom under one prefix operator
PrefixedOperandEnd(T) == IF IsAtomToken(T[3]) THEN 3 ELSE 4
PrefixedOperand(T) ==
    IF IsAtomToken(T[3]) THEN AtomNode(T[3])
    ELSE UnaryNode(PrefixOperation(T[3].literal), AtomNode(T[4]))

\* C24: a binary operator never takes into its right operand a following
\* binary operator of lower precedence: A op1 B op2 C with op1 above op2, B an
\* atom or an atom under one prefix operator, parses as
\* Binary(Binary(A, op1, B), op2, C); 2 ** -3 * 4 is (2 ** -3) * 4.
C24_RightOperandStopsAtLowerPrecedence ==
    LET T == Significant
        b == PrefixedOperandEnd(T)
    IN  (/\ parsed.status # "none"
         /\ IsOperatorChain(T) /\ Len(T) >= 5 /\ Len(T) = b + 2
         /\ IsAtomToken(T[1]) /\ IsInfixAt(T, 2) /\ IsAtomToken(T[b])
         /\ TablePrecedence(T[2].literal) > TablePrecedence(T[b + 1].literal))
        => /\ parsed.status = "return"
           /\ parsed.node = BinaryNode(BinaryNode(AtomNode(T[1]), T[2].literal, PrefixedOperand(T)),
                                       T[b + 1].literal, AtomNode(T[Len(T)]))

(***************************************************************************)
(* Claim about registrations that fail (C29).                              *)
(***************************************************************************)
\* C29: when overload() or overloads() throws - the class argument has no
\* prototype, overload() is given an unknown operation, or overloads() is
\* given a mapping with an implementation that is not a function - the
\* overload table of the engine is what it was before the call.
C29_FailedRegistrationChangesNothing ==
    [][(last'.op \in {"overload", "overloads"} /\ last'.status = "throw")
          => overloadings' = overloadings]_vars

(***************************************************************************)
(* Claim about malformed dimensions of a subscript (C26).                  *)
(***************************************************************************)
Colons(seg) == Cardinality({i \in DOMAIN seg : IsPunctuation(seg[i], ":")})
\* the expressions the subscript node holds: the index, or the starts, ends
\* and steps of the slices
NodeExpressions(node) ==
    IF node.type = "Indexing" THEN {node.index}
    ELSE UNION {{node.slices[d].start, node.slices[d].end, node.slices[d].step} :
                   d \in DOMAIN node.slices} \ {Undefined}
\* the expressions written between the brackets
WrittenExpressions == {AtomNode(Bracket[i]) : i \in {j \in DOMAIN Bracket : IsAtomToken(Bracket[j])}}

\* C26: the parser rejects a subscript with a dimension of more than two
\* colons or with two expressions that no colon separates; and every
\* expression written between the brackets of an accepted subscript is in
\* the Indexing or Slicing node: none is dropped or overwritten.
C26_MalformedDimensionsRejected ==
    parsed.status # "none" =>
        /\ ((\E d \in DOMAIN Dimensions : Colons(Dimensions[d]) > 2) \/ ~OneExpressionPerPlace)
              => parsed.status = "throw"
        /\ parsed.status = "return" => WrittenExpressions \subseteq NodeExpressions(parsed.node)

(***************************************************************************)
(* Claim about the separators of call arguments (C25).                     *)
(***************************************************************************)
\* the tokens are callee ( ... ) with only atoms and commas between the
\* parentheses
IsPlainCall ==
    /\ Len(tokens) >= 3 /\ tokens[1].type = "Identifier"
    /\ IsPunctuation(tokens[2], "(") /\ IsPunctuation(tokens[Len(tokens)], ")")
    /\ \A i \in 3..(Len(tokens) - 1) : IsAtomToken(tokens[i]) \/ IsPunctuation(tokens[i], ",")
AdjacentArguments ==
    \E i \in 3..(Len(tokens) - 2) : IsAtomToken(tokens[i]) /\ IsAtomToken(tokens[i + 1])
\* the call of x1 with the arguments at the given places of the token list
CallOfAtoms(symbols, places) ==
    Parsed(InvokeNode(IdentifierNode("x1"),
                      [i \in DOMAIN places |-> AtomNode(ListTokens(symbols)[places[i]])]),
           Len(symbols))

\* C25: f(), f(a), f(a, b) and f(a, b,) are accepted with 0, 1, 2 and 2
\* arguments in source order, and an argument list in which two argument
\* expressions follow each other without a comma between them is rejected.
C25_ArgumentsNeedCommas ==
    /\ parse(ListTokens(<<"x", "(", ")">>)) = CallOfAtoms(<<"x", "(", ")">>, <<>>)
    /\ parse(ListTokens(<<"x", "(", "x", ")">>)) = CallOfAtoms(<<"x", "(", "x", ")">>, <<3>>)
    /\ parse(ListTokens(<<"x", "(", "x", ",", "1", ")">>))
          = CallOfAtoms(<<"x", "(", "x", ",", "1", ")">>, <<3, 5>>)
    /\ parse(ListTokens(<<"x", "(", "x", ",", "1", ",", ")">>))
          = CallOfAtoms(<<"x", "(", "x", ",", "1", ",", ")">>, <<3, 5>>)
    /\ (parsed.status # "none" /\ IsPlainCall /\ AdjacentArguments) => parsed.status = "throw"

(***************************************************************************)
(* Rop.op.  OPERATION_REGISTRY is an object literal, so the in operator    *)
(* also finds what it inherits from Object.prototype.                      *)
(***************************************************************************)
\* names of properties of Object.prototype
ObjectPrototypeNames == {"constructor", "toString", "valueOf", "hasOwnProperty"}
\* Operations.isKnownOperation: op in OPERATION_REGISTRY
isKnownOperation(op) ==
    RegistryHas(op) \/ (op.k = "string" /\ op.s \in ObjectPrototypeNames)
\* Rop.op: for an inherited name OPERATION_REGISTRY[name]?.symbol is undefined
\* and Operations.symbol returns null
Rop_op(name) ==
    IF ~isKnownOperation(name) THEN Thrown("Error")
    ELSE Operations_symbol(name)

(***************************************************************************)
(* Tag specification: Rop.op is called with operation names and with       *)
(* other strings, one call after another.                                  *)
(***************************************************************************)
OtherNames == {"?", "-1", "plus", "constructor", "toString"}
OpNames == Range(OPERATOR_NAMES) \cup OtherNames
NoCall == [op |-> "none"]

InitOp ==
    /\ engines = {}
    /\ overloadings = EmptyMap
    /\ bindings = EmptyMap
    /\ instance = Undefined
    /\ declared = [c \in Classes |-> EmptyMap]
    /\ last = NoCall @@ [before |-> NoCall]
    /\ tokens = <<>>
    /\ parsed = [status |-> "none"]
    /\ source = NoSource

\* Rop.op(name); before is the call made before this one
Op(name) ==
    /\ last' = [op |-> "op", name |-> name, value |-> Rop_op(Str(name)),
                before |-> [x \in DOMAIN last \ {"before"} |-> last[x]]]
    /\ UNCHANGED <<engines, overloadings, bindings, instance, declared, tokens, parsed, source>>

NextOp == \E name \in OpNames : Op(name)

SpecOp == InitOp /\ [][NextOp]_vars

\* C23: Rop.op(name) returns, for each of the 28 operation names, the same
\* tag on every call, a symbol, and distinct names give distinct tags; for
\* every other string it throws instead of returning a value.
C23_TagsStableDistinctOrThrow ==
    last.op = "op" =>
        /\ last.name \in Range(OPERATOR_NAMES) => last.value.k = "symbol"
        /\ last.name \notin Range(OPERATOR_NAMES) => IsThrown(last.value)
        /\ (last.before.op = "op" /\ last.name \in Range(OPERATOR_NAMES)
            /\ last.before.name \in Range(OPERATOR_NAMES)) =>
              (last.value = last.before.value <=> last.name = last.before.name)

(***************************************************************************)
(* Logic specification: an engine without overloads binds functions that   *)
(* leave a trace when called, and X1 op X2 and X1 op X2 op X3 with the     *)
(* operators || and && are tokenized, parsed and evaluated.                *)
(*   t() returns an object, z() returns 0, b() returns a string;           *)
(*   v is an object and o is 0.                                            *)
(***************************************************************************)
LogicBindings ==
    [t |-> Thunk("t", Instance("Base")),
     z |-> Thunk("z", NumberValue(0)),
     b |-> Thunk("b", Primitive("String")),
     v |-> Instance("Derived"),
     o |-> NumberValue(0)]
LogicOperands == {"t", "z", "b", "v", "o"}
LogicLiterals == {"||", "&&"}
\* X1 op1 X2 op2 ... from operand i on: t(), z() and b() are calls
RECURSIVE LogicTokens(_, _, _)
LogicTokens(names, literals, i) ==
    (IF names[i] \in {"v", "o"} THEN <<IdentifierToken(names[i])>> ELSE CallTokens(names[i]))
    \o (IF i = Len(names) THEN <<>>
        ELSE <<OperatorToken(literals[i])>> \o LogicTokens(names, literals, i + 1))

InitLogic ==
    /\ engines = {1}
    /\ overloadings = [e \in {1} |-> EmptyMap]
    /\ bindings = [e \in {1} |-> LogicBindings]
    /\ instance = Undefined
    /\ declared = [c \in Classes |-> EmptyMap]
    /\ last = [op |-> "none"]
    /\ \E k \in 2..MaxArgs : \E names \in [1..k -> LogicOperands] :
          \E literals \in [1..(k - 1) -> LogicLiterals] : tokens = LogicTokens(names, literals, 1)
    /\ parsed = [status |-> "none"]
    /\ source = NoSource

NextLogic ==
    \/ Parse
    \/ parsed.status = "return" /\ last.op = "parse" /\ Evaluate(1, parsed.node)

SpecLogic == InitLogic /\ [][NextLogic]_vars

RECURSIVE ShortCircuit(_)
\* the value and the calls of an expression of || and && whose right operands
\* are evaluated only when the left one does not decide
ShortCircuit(node) ==
    CASE node.type = "Binary" ->
            LET a == ShortCircuit(node.left)
                b == ShortCircuit(node.right)
                decided == IF node.operation = "||" THEN Truthy(a.value) ELSE ~Truthy(a.value)
            IN  IF decided THEN a ELSE [value |-> b.value, trace |-> a.trace \o b.trace]
      [] node.type = "Invoke" ->
            [value |-> LogicBindings[node.target.name].returns, trace |-> <<node.target.name>>]
      [] OTHER -> [value |-> LogicBindings[node.name], trace |-> <<>>]
\* the names of the bound functions called, in the order of their calls
UserCalls ==
    LET made == SelectSeq(last.calls, LAMBDA c : c.fn.shape # "native")
    IN  [i \in DOMAIN made |-> made[i].fn.name]

\* C27: || and && short-circuit: in a || b with a truthy a, and in a && b with
\* a falsy a, b is not evaluated - the functions it calls are not called - and
\* the result is a; otherwise the result is the value of b.
C27_ShortCircuit ==
    last.op = "evaluate" =>
        /\ last.status = "return"
        /\ last.value = ShortCircuit(last.node).value
        /\ UserCalls = ShortCircuit(last.node).trace

(***************************************************************************)
(* Rop.o: the pipeline tokenize, parse, evaluate.  The outcome names the   *)
(* stage that ended the run.                                               *)
(***************************************************************************)
Outcome(stage, status, value, error, calls) ==
    [stage |-> stage, status |-> status, value |-> value, error |-> error, calls |-> calls]
\* new Evaluater(ast, this).evaluate() of what the parser gave
evaluateParsed(e, ast) ==
    IF ast.status = "throw" THEN Outcome("parse", "throw", Undefined, ast.error, <<>>)
    ELSE [stage |-> "evaluate"] @@ evaluateNode(e, ast.node)
\* new AstParser(tokens).parse() of what the tokenizer gave, and the evaluation
parseTokenized(e, tokenized) ==
    IF tokenized.status = "throw" THEN Outcome("tokenize", "throw", Undefined, tokenized.error, <<>>)
    ELSE evaluateParsed(e, parse(tokenized.tokens))
\* Rop.o
Rop_o(e, strs, args) == parseTokenized(e, tokenize(strs, args))

(***************************************************************************)
(* Pipeline specification: engine 1 has the default overloads and binds x  *)
(* and f, engine 2 has nothing; a template literal is given to o of either *)
(* engine, again and again.                                                *)
(***************************************************************************)
PipelineEngines == {1, 2}
PipelineBindings == [x |-> NumberValue(1), f |-> Thunk("f", Instance("Base"))]
PipelineFragments ==
    {<<>>, <<"x">>, <<"+">>, <<"[">>, <<"]">>, <<"#">>, <<"f", "(", ")", " ", "+">>}
\* the value embedded at place i: an array, or an index into it
PipelineValueAt(i) == IF i % 2 = 1 THEN ArrayOfLength(2) ELSE NumberValue(-1)

InitPipeline ==
    /\ engines = PipelineEngines
    /\ overloadings = [e \in PipelineEngines |-> IF e = 1 THEN overloadDefaults(EmptyMap) ELSE EmptyMap]
    /\ bindings = [e \in PipelineEngines |-> IF e = 1 THEN PipelineBindings ELSE EmptyMap]
    /\ instance = Undefined
    /\ declared = [c \in Classes |-> EmptyMap]
    /\ last = NoCall @@ [before |-> NoCall]
    /\ tokens = <<>>
    /\ parsed = [status |-> "none"]
    /\ \E count \in 0..MaxValues : \E raw \in [1..(count + 1) -> PipelineFragments] :
          source = TemplateSource(raw, [i \in 1..count |-> PipelineValueAt(i)])

\* rop.o(strs, ...args) on engine e; before is the run made before this one
O(e) ==
    /\ e \in engines
    /\ last' = [op |-> "o", engine |-> e,
                before |-> [x \in DOMAIN last \ {"before"} |-> last[x]]]
               @@ Rop_o(e, source, source.args)
    /\ UNCHANGED <<engines, overloadings, bindings, instance, declared, tokens, parsed, source>>

NextPipeline == \E e \in PipelineEngines : O(e)

SpecPipeline == InitPipeline /\ [][NextPipeline]_vars

StyleFns == {Fn("m", "method"), Fn("n", "function"), Fn("a", "arrow"), Fn("s", "bare")}
StyleOps == {Str("+"), Str("~")}
StyleNodes ==
    {BinaryNode(ValueNode(EmbeddedToken(Instance("Base"))), "+",
                ValueNode(EmbeddedToken(Primitive("String")))),
     BinaryNode(ValueNode(EmbeddedToken(Primitive("String"))), "+",
                ValueNode(EmbeddedToken(Instance("Base")))),
     BinaryNode(ValueNode(EmbeddedToken(Instance("Base"))), "+",
                ValueNode(EmbeddedToken(Instance("Derived")))),
     UnaryNode("~", ValueNode(EmbeddedToken(Instance("Base"))))}

InitStyle ==
    /\ engines = {1}
    /\ overloadings = [e \in {1} |-> EmptyMap]
    /\ bindings = [e \in {1} |-> EmptyMap]
    /\ instance = Undefined
    /\ declared = [c \in Classes |-> EmptyMap]
    /\ last = [op |-> "none"]
    /\ tokens = <<>>
    /\ parsed = [status |-> "none"]
    /\ source = NoSource

NextStyle ==
    \/ \E op \in StyleOps, fn \in StyleFns : overload(1, Clazz("Base"), op, fn)
    \/ \E node \in StyleNodes : Evaluate(1, node)

SpecStyle == InitStyle /\ [][NextStyle]_vars

\* the function the user registered for Base and the operation evaluated
RegisteredByUser ==
    LET stored == overloadings[1][Prototype("Base")][LastSymbol]
    IN  IF stored.shape = "wrapper" THEN stored.inner ELSE stored
\* the operands of the evaluation as the engine is to hand them over: the
\* Base object as receiver, then the other operand if there is one
ReceiverAndOperand ==
    IF last.node.type = "Unary" THEN <<OperandValue>>
    ELSE IF LeftValue = Instance("Base") THEN <<LeftValue, RightValue>>
    ELSE <<RightValue, LeftValue>>
\* what the called function finds as its receiver and operand: a method or a
\* normal function in this and its parameters, an arrow function, which has
\* no this of its own, in its parameters
Received(result) ==
    IF result.fn.shape \in {"arrow", "bare"} THEN result.args
    ELSE <<result.this>> \o result.args

\* C22: an implementation registered as a method, as a normal function or as
\* an arrow function taking self first is dispatched alike: invoked for
\* receiver r and other operand x, the method and the normal function run
\* with this = r and argument x and the arrow function is called with
\* (r, x), so that every style is handed the same receiver and operand.
C22_StylesDispatchAlike ==
    (/\ last.op = "evaluate"
     /\ RegisteredFor(1, "Base", LastSymbol) # {})
    => /\ last.status = "return"
       /\ last.value.fn = RegisteredByUser
       /\ Received(last.value) = ReceiverAndOperand

(***************************************************************************)
(* Claim about parentheses (C21).                                          *)
(***************************************************************************)
\* a value token that stands for a sub-expression taken out of a token list
Hole == EmbeddedToken([k |-> "object", cls |-> "Hole"])
RECURSIVE Filled(_, _)
\* the tree with the node given put where the hole is
Filled(node, sub) ==
    IF node = Undefined THEN Undefined
    ELSE CASE node = ValueNode(Hole) -> sub
           [] node.type = "Unary" -> UnaryNode(node.operation, Filled(node.operand, sub))
           [] node.type = "Binary" ->
                 BinaryNode(Filled(node.left, sub), node.operation, Filled(node.right, sub))
           [] node.type = "AccessProperty" -> AccessPropertyNode(Filled(node.left, sub), node.name)
           [] node.type = "Invoke" ->
                 InvokeNode(Filled(node.target, sub),
                            [a \in DOMAIN node.args |-> Filled(node.args[a], sub)])
           [] node.type = "Indexing" ->
                 IndexingNode(Filled(node.target, sub), Filled(node.index, sub))
           [] node.type = "Slicing" ->
                 SlicingNode(Filled(node.target, sub),
                             [d \in DOMAIN node.slices |->
                                 [start |-> Filled(node.slices[d].start, sub),
                                  end |-> Filled(node.slices[d].end, sub),
                                  step |-> Filled(node.slices[d].step, sub)]])
           [] OTHER -> node
\* the tokens i .. j are a sub-expression of the expression parsed: they parse
\* to a node on their own, and the tree is the tree of the list with one value
\* in their place, with that node put in for the value
IsSubExpression(i, j) ==
    LET sub == parse(SubSeq(tokens, i, j))
        around == parse(SubSeq(tokens, 1, i - 1) \o <<Hole>> \o SubSeq(tokens, j + 1, Len(tokens)))
    IN  /\ sub.status = "return" /\ around.status = "return"
        /\ Filled(around.node, sub.node) = parsed.node
\* the token list with the tokens i .. j in the given number of pairs of parentheses
RECURSIVE InParentheses(_, _, _, _)
InParentheses(toks, i, j, pairs) ==
    IF pairs = 0 THEN toks
    ELSE InParentheses(SubSeq(toks, 1, i - 1) \o <<PunctuationToken("(")>> \o SubSeq(toks, i, j)
                 \o <<PunctuationToken(")")>> \o SubSeq(toks, j + 1, Len(toks)),
                 i, j + 2, pairs - 1)

\* C21: for every expression the parser accepts and every sub-expression of
\* it - an operand, a call argument, a callee, a subscript target, a slice
\* component - the expression with that sub-expression in one or in two pairs
\* of parentheses parses to the same tree.
C21_ParenthesesKeepTheTree ==
    parsed.status = "return" =>
        \A i \in DOMAIN tokens : \A j \in i..Len(tokens) :
            IsSubExpression(i, j) =>
                \A pairs \in 1..2 : parse(InParentheses(tokens, i, j, pairs)).node = parsed.node
\* C21 witness: a call whose argument is a prefix operator with its operand
C21_Witness ==
    /\ parsed.status = "return" /\ parsed.node.type = "Invoke"
    /\ Len(parsed.node.args) = 1 /\ parsed.node.args[1].type = "Unary"
    /\ IsSubExpression(3, 4) /\ IsSubExpression(1, 1) /\ ~IsSubExpression(2, 4)

\* two expressions written one after the other with nothing between them,
\* which the argument loop and the slice closure let through (C25, C26)
Juxtaposed ==
    \E i \in 1..(Len(Significant) - 1) :
        /\ \/ Significant[i].type \in {"Identifier", "Constant", "Embedded"}
           \/ IsPunctuation(Significant[i], ")") \/ IsPunctuation(Significant[i], "]")
        /\ Significant[i + 1].type \in {"Identifier", "Constant", "Embedded"}
\* C21 apart from juxtaposed expressions: parentheses keep the tree
C21_ParenthesesKeepTheTreeWhenSeparated == ~Juxtaposed => C21_ParenthesesKeepTheTree

(***************************************************************************)
(* Claim about termination of the parser (C30).  What one turn of each     *)
(* loop of parseExpression does with the position: it leaves the loop      *)
(* ("exit"), throws ("throw") or goes round again ("next").                *)
(***************************************************************************)
Turn(outcome, position) == [outcome |-> outcome, position |-> position]
\* one turn of loop_parse_exp started at position p
OperatorTurn(toks, p, precedence) ==
    LET position == skipWhitespace(toks, p)
        token == peek(toks, position)
    IN  IF token = Null THEN Turn("exit", position)
        ELSE IF token.type = "Operator"
        THEN LET operator == binaryFromLiteral(token.literal)
                 meta == Operations_meta(Str(operator))
                 right == parseExpression(toks, consume(toks, position),
                              IF isRightAssociative(operator) THEN meta.precedence
                              ELSE meta.precedence + 1)
             IN  IF operator = "" \/ meta.type # "binary" THEN Turn("throw", position)
                 ELSE IF meta.precedence < precedence THEN Turn("exit", position)
                 ELSE IF right.status = "throw" THEN Turn("throw", right.position)
                 ELSE Turn("next", right.position)
        ELSE IF IsPunctuation(token, ".")
        THEN LET at == skipWhitespace(toks, consume(toks, position))
                 prop == peek(toks, at)
             IN  IF prop # Null /\ prop.type = "Identifier" THEN Turn("next", consume(toks, at))
                 ELSE Turn("throw", at)
        ELSE IF IsPunctuation(token, "(")
        THEN LET r == parseArguments(toks, consume(toks, position), <<>>)
             IN  Turn(IF r.status = "throw" THEN "throw" ELSE "next", r.position)
        ELSE IF IsPunctuation(token, "[")
        THEN LET open == skipWhitespace(toks, consume(toks, position))
                 r == parseSubscript(toks, open, ValueNode(Hole), <<>>, FALSE, 0)
             IN  IF peekPunctuation(toks, open, "]") THEN Turn("throw", consume(toks, open))
                 ELSE Turn(IF r.status = "throw" THEN "throw" ELSE "next", r.position)
        ELSE Turn("exit", position)
\* one turn of the argument loop started at position p
ArgumentTurn(toks, p) ==
    LET position == skipWhitespace(toks, p)
        arg == parseExpression(toks, position, 0)
        comma == skipWhitespace(toks, arg.position)
    IN  IF peekPunctuation(toks, position, ")") THEN Turn("exit", consume(toks, position))
        ELSE IF arg.status = "throw" THEN Turn("throw", arg.position)
        ELSE Turn("next", IF peekPunctuation(toks, comma, ",") THEN consume(toks, comma) ELSE comma)
\* one turn of the loop of the slice closure started at position p
SliceTurn(toks, p) ==
    LET q == peek(toks, p)
        s == parseExpression(toks, p, 0)
    IN  IF peekPunctuation(toks, p, ",") \/ peekPunctuation(toks, p, "]") THEN Turn("exit", p)
        ELSE IF peekPunctuation(toks, p, ":") THEN Turn("next", consume(toks, p))
        ELSE IF q # Null /\ q.type = "Punctuation" /\ q.literal \in {"]", ",", ":"}
        THEN Turn("next", p)
        ELSE IF s.status = "throw" THEN Turn("throw", s.position)
        ELSE Turn("next", s.position)
\* one turn of the loop over the dimensions of a subscript started at position p
SubscriptTurn(toks, p) ==
    LET r == parseSlice(toks, skipWhitespace(toks, p), EmptyMap, 0, FALSE, FALSE)
        position == skipWhitespace(toks, r.position)
    IN  IF r.status = "throw" THEN Turn("throw", r.position)
        ELSE IF peekPunctuation(toks, position, ",") THEN Turn("next", consume(toks, position))
        ELSE IF peekPunctuation(toks, position, "]") THEN Turn("exit", consume(toks, position))
        ELSE Turn("next", position)
\* the turn keeps the position between where it started and the end of the
\* list, and goes round again only past where it started
Advances(turn, p) ==
    /\ turn.outcome \in {"exit", "throw", "next"}
    /\ turn.position \in p..Len(tokens)
    /\ turn.outcome = "next" => turn.position > p
\* the loop started at p ends where its first turn ends it, or where the loop
\* started after that turn ends
Unfolds(r, turn, rest) ==
    /\ r.status \in {"return", "throw"}
    /\ r.position = (IF turn.outcome = "next" THEN rest.position ELSE turn.position)
    /\ r.status = "throw" <=>
          (IF turn.outcome = "next" THEN rest.status = "throw" ELSE turn.outcome = "throw")
\* precedences parseExpression is called with: none, and those below, at and
\* above the precedence of a prefix operator
Precedences == {0} \cup {Operations_meta(Str("-x")).precedence + d : d \in {-1, 0, 1}}

\* C30: for every token list parsed, started at any position p of it, parse(),
\* parseAtom and parseExpression return or throw with the position between p
\* and the length of the list, consume and skipWhitespace never move the
\* position back or past the end, and every turn of the operator loop, the
\* argument loop, the slice loop and the dimension loop leaves the loop,
\* throws, or goes round again at a greater position.
C30_ParserTerminates ==
    /\ parsed.status \in {"none", "return", "throw"}
    /\ last.op = "parse" => parsed.status # "none" /\ parsed.position \in 0..Len(tokens)
    /\ last.op = "parse" => \A p \in 0..Len(tokens) :
          /\ consume(tokens, p) \in p..Len(tokens)
          /\ skipWhitespace(tokens, p) \in p..Len(tokens)
          /\ LET atom == parseAtom(tokens, p)
             IN  /\ atom.status \in {"return", "throw"}
                 /\ atom.position \in p..Len(tokens)
                 /\ atom.status = "return" => atom.position > p
          /\ \A precedence \in Precedences :
                LET expr == parseExpression(tokens, p, precedence)
                    turn == OperatorTurn(tokens, p, precedence)
                IN  /\ expr.status \in {"return", "throw"}
                    /\ expr.position \in p..Len(tokens)
                    /\ expr.status = "return" => expr.position > p
                    /\ Advances(turn, p)
                    /\ Unfolds(parseExpressionLoop(tokens, p, ValueNode(Hole), precedence), turn,
                               parseExpressionLoop(tokens, turn.position, ValueNode(Hole), precedence))
          /\ LET turn == ArgumentTurn(tokens, p)
             IN  /\ Advances(turn, p)
                 /\ Unfolds(parseArguments(tokens, p, <<>>), turn,
                            parseArguments(tokens, turn.position, <<>>))
          /\ LET turn == SliceTurn(tokens, p)
             IN  /\ Advances(turn, p)
                 /\ Unfolds(parseSlice(tokens, p, EmptyMap, 0, FALSE, FALSE), turn,
                            parseSlice(tokens, turn.position, EmptyMap, 0, FALSE, FALSE))
          /\ LET turn == SubscriptTurn(tokens, p)
                 r == parseSubscript(tokens, p, ValueNode(Hole), <<>>, FALSE, 0)
                 rest == parseSubscript(tokens, turn.position, ValueNode(Hole), <<>>, FALSE, 0)
             IN  /\ Advances(turn, p)
                 /\ r.status \in {"return", "throw"}
                 /\ r.position = (IF turn.outcome = "next" THEN rest.position ELSE turn.position)
\* C30 witness: a list has been parsed in which each of the four loops goes
\* round again from some position
C30_Witness ==
    /\ last.op = "parse" /\ parsed.status = "return"
    /\ \E p \in 0..Len(tokens) : OperatorTurn(tokens, p, 0).outcome = "next"
    /\ \E p \in 0..Len(tokens) : peekPunctuation(tokens, p, ",")
                                 /\ SubscriptTurn(tokens, p - 1).outcome = "next"
    /\ \E p \in 0..Len(tokens) : peekPunctuation(tokens, p, ":")
                                 /\ SliceTurn(tokens, p).outcome = "next"
    /\ \E p \in 0..Len(tokens) : ArgumentTurn(tokens, p).outcome = "next"

====
